---------------------------- MODULE Spec2Model ----------------------------
(***************************************************************************)
(* The scanline region builder of amicola (amicola/src/regions.rs):        *)
(* RegionList::from builds the global hit set from monotone segments,      *)
(* RegionList::regions walks it row by row and yields Boundary and Span    *)
(* regions, RegionList::shade_commands maps them to shade commands.        *)
(*                                                                         *)
(* Coordinates.  Pixel indices (isize) are integers.  f32 values (raw hit  *)
(* positions, y_range bounds) are fixed-point integers in units of         *)
(* 1/SubPixel of a pixel; SubPixel is a power of two, so every modelled    *)
(* value is exactly representable in f32.                                  *)
(***************************************************************************)
EXTENDS Integers, Sequences, FiniteSets, TLC

\* Fixed-point denominator of the modelled f32 values (halves of a pixel).
SubPixel == 2

\* ---- bounds of the walk specification (Spec) ----
MaxX == 3       \* hits lie in pixel columns 0..MaxX
MaxHits == 3    \* hits in the hit set handed to regions()
\* The rows and segment ids of that hit set.  Row 0 is the walk's initial
\* row; in row 2 the y_range ends exceed 2.0, where f32 absorbs EPSILON.
Rows == {0, 2}
SegIds == {0, 1}

\* ---- bounds of the construction specifications (SpecBuild, SpecShade) ----
MaxPX == 4      \* path vertices have x in 0..MaxPX (pixels)
MaxPY == 2      \* path vertices have y in 0..MaxPY (pixels)

VARIABLES
    pc,              \* "from": RegionList::from runs; "built": it returned;
                     \* "regions": regions() is being drained;
                     \* "shade": shade_commands() is being drained;
                     \* "bookends", "crossings", "joined": one turn of
                     \* from()'s loop, raw hit by raw hit;
                     \* "batch", "batched": LayerInput::from(Vec<Mesh>);
                     \* "iter": a LayerInput is iterated; "compose",
                     \* "extend": Composition::add is idle, or extending
    segments,        \* RegionList.segments: the Vec<monotonics::Segment>
    segment_id,      \* from(): the enumerate() index of the next segment
    hits,            \* RegionList.hits: BTreeSet<Hit>
    iter,            \* hits.into_iter(): the hits not yet consumed
    y,               \* regions(): let mut y
    last_hit,        \* regions(): let mut last_hit (Option: <<>> or <<hit>>)
    winding_number,  \* regions(): let mut winding_number
    span,            \* the closure's span slot (Option: <<>> or <<region>>)
    out,             \* the regions yielded so far
    sample_depth,    \* shade_commands(): the SampleDepth argument
    cmds,            \* the shade commands yielded so far
    segment_hits,    \* from(): let mut segment_hits, in iteration order
    crossings,       \* from(): the grid-line intersections of the segment
    crossing_idx,    \* from(): how many of them have been inserted
    meshes,          \* LayerInput::from: the Vec<Mesh> argument
    mesh_idx,        \* LayerInput::from: how many meshes the loop has taken
    layers,          \* LayerInput::from: let mut layers
    meshes_in_layer, \* LayerInput::from: let mut meshes_in_layer
    layer_input,     \* the LayerInput: [kind, ts], a Single holding one layer
    yielded,         \* what the calls of LayerInput::next() returned so far
    composition      \* Composition.layers

raster_vars == <<pc, segments, segment_id, hits, iter, y, last_hit,
                 winding_number, span, out, sample_depth, cmds>>

raw_vars == <<segment_hits, crossings, crossing_idx>>

layer_vars == <<meshes, mesh_idx, layers, meshes_in_layer, layer_input,
                yielded, composition>>

\* The variables of the raw-hit loop and of LayerInput::from.
aux_vars == <<raw_vars, layer_vars>>

vars == <<raster_vars, aux_vars>>

\* No raw-hit loop and no LayerInput::from is running.
AuxIdle ==
    /\ segment_hits = <<>>
    /\ crossings = <<>>
    /\ crossing_idx = 0
    /\ meshes = <<>>
    /\ mesh_idx = 0
    /\ layers = <<>>
    /\ meshes_in_layer = <<>>
    /\ layer_input = [kind |-> "Many", ts |-> <<>>]
    /\ yielded = <<>>
    /\ composition = <<>>

Abs(n) == IF n < 0 THEN -n ELSE n

\* Lexicographic order of pairs.
PairLess(a, b) == a[1] < b[1] \/ (a[1] = b[1] /\ a[2] < b[2])

\* Option<T> as a sequence of length at most one.
None == <<>>
Some(v) == <<v>>
IsSome(o) == Len(o) = 1
Unwrap(o) == o[1]

----------------------------------------------------------------------------
\* Region (lines 20-31)
Boundary(x, yy) == [kind |-> "Boundary", x |-> x, y |-> yy]
Span(start_x, end_x, yy) ==
    [kind |-> "Span", start_x |-> start_x, end_x |-> end_x, y |-> yy]

\* Hit (lines 46-52)
Hit(x, yy, y_range, id) ==
    [x |-> x, y |-> yy, y_range |-> y_range, segment_id |-> id]

Range(start, end) == [start |-> start, end |-> end]

\* Mutant: the comparison takes x before y.
HitLessByColumn(a, b) == a.x < b.x \/ (a.x = b.x /\ a.y < b.y)

\* Mutant: rows are taken from the last to the first.
HitLessRowDescending(a, b) == a.y > b.y \/ (a.y = b.y /\ a.x < b.x)

\* impl PartialOrd/Ord for Hit: by y, then by x.
HitLess(a, b) == a.y < b.y \/ (a.y = b.y /\ a.x < b.x)

\* impl PartialEq for Hit: the pixel only.
HitEq(a, b) == a.x = b.x /\ a.y = b.y

\* BTreeSet<Hit>::into_iter().next(): the least element under Ord.
FirstHit(S) == CHOOSE h \in S : \A g \in S : g = h \/ HitLess(h, g)

----------------------------------------------------------------------------
(***************************************************************************)
(* f32 arithmetic of the new-edge test.  Comparisons are made on doubled   *)
(* fixed-point values, so that v - EPSILON has a place strictly between    *)
(* v - 1/SubPixel and v.  f32::EPSILON is 2^-23, the spacing of f32 in     *)
(* [1, 2): v - EPSILON is below v for -2 < v <= 2, and rounds back to v    *)
(* (round to nearest even) for every other modelled v.                     *)
(***************************************************************************)
EpsExactBelow == 2

Exact(v) == 2 * v

SubEpsilon(v) ==
    IF v > -(EpsExactBelow * SubPixel) /\ v <= EpsExactBelow * SubPixel
    THEN 2 * v - 1
    ELSE 2 * v

\* Range<f32>::contains: start <= v < end, v a doubled value.
Contains(r, v2) == 2 * r.start <= v2 /\ v2 < 2 * r.end

----------------------------------------------------------------------------
\* Mutant: adjacent pixels count as a gap.
IsGapAtDistanceOne(last, hit) ==
    IF IsSome(last) THEN Abs(Unwrap(last).x - hit.x) > 0 ELSE FALSE

\* regions(), lines 219-222
IsGapBetweenHits(last, hit) ==
    IF IsSome(last) THEN Abs(Unwrap(last).x - hit.x) > 1 ELSE FALSE

\* Mutant: the segment ids are not compared.
IsNewEdgeAnySegment(last, hit) ==
    IF IsSome(last)
    THEN LET lh == Unwrap(last) IN
         \/ IsGapBetweenHits(last, hit)
         \/ Contains(lh.y_range, Exact(hit.y_range.start))
         \/ Contains(lh.y_range, SubEpsilon(hit.y_range.end))
         \/ Contains(hit.y_range, Exact(lh.y_range.start))
         \/ Contains(hit.y_range, SubEpsilon(lh.y_range.end))
    ELSE TRUE

\* regions(), lines 247-261
IsNewEdge(last, hit) ==
    IF IsSome(last)
    THEN LET lh == Unwrap(last) IN
         /\ lh.segment_id # hit.segment_id
         /\ \/ IsGapBetweenHits(last, hit)
            \/ Contains(lh.y_range, Exact(hit.y_range.start))
            \/ Contains(lh.y_range, SubEpsilon(hit.y_range.end))
            \/ Contains(hit.y_range, Exact(lh.y_range.start))
            \/ Contains(hit.y_range, SubEpsilon(lh.y_range.end))
    ELSE TRUE

\* Mutant: the row transition keeps last_hit.
RowResetKeepingLastHit(w, hit) ==
    IF hit.y # w.y
    THEN [w EXCEPT !.winding_number = 0, !.y = hit.y]
    ELSE w

\* regions(), lines 206-210: the row transition.
RowReset(w, hit) ==
    IF hit.y # w.y
    THEN [w EXCEPT !.last_hit = None, !.winding_number = 0, !.y = hit.y]
    ELSE w

\* Mutant: every hit increments the winding number.
WindingUpdateAlways(winding, new_edge) == winding + 1

\* regions(), lines 262-265
WindingUpdate(winding, new_edge) == IF new_edge THEN winding + 1 ELSE winding

\* Mutant: the span does not ask for a new edge.
SpanIgnoringNewEdge(last, hit, new_edge, winding) ==
    IF IsSome(last) /\ IsGapBetweenHits(last, hit) /\ winding % 2 = 0
    THEN Some(Span(Unwrap(last).x + 1, hit.x, hit.y))
    ELSE None

\* Mutant: the span runs through the hit's own pixel.
SpanThroughHit(last, hit, new_edge, winding) ==
    IF IsSome(last) /\ new_edge /\ IsGapBetweenHits(last, hit) /\ winding % 2 = 0
    THEN Some(Span(Unwrap(last).x + 1, hit.x + 1, hit.y))
    ELSE None

\* Mutant: the span is opened on an odd winding number.
SpanOnOddWinding(last, hit, new_edge, winding) ==
    IF IsSome(last) /\ new_edge /\ IsGapBetweenHits(last, hit) /\ winding % 2 = 1
    THEN Some(Span(Unwrap(last).x + 1, hit.x, hit.y))
    ELSE None

\* Mutant: the span starts at column 0 of the row.
SpanFromColumnZero(last, hit, new_edge, winding) ==
    IF IsSome(last) /\ new_edge /\ IsGapBetweenHits(last, hit) /\ winding % 2 = 0
    THEN Some(Span(0, hit.x, hit.y))
    ELSE None

\* Mutant: the span starts on last_hit's own pixel.
SpanFromLastHit(last, hit, new_edge, winding) ==
    IF IsSome(last) /\ new_edge /\ IsGapBetweenHits(last, hit) /\ winding % 2 = 0
    THEN Some(Span(Unwrap(last).x, hit.x, hit.y))
    ELSE None

\* regions(), lines 267-277: the span slot for this hit.
SpanFor(last, hit, new_edge, winding) ==
    IF IsSome(last) /\ new_edge /\ IsGapBetweenHits(last, hit) /\ winding % 2 = 0
    THEN Some(Span(Unwrap(last).x + 1, hit.x, hit.y))
    ELSE None

\* The first region of the closure's iterator, line 280.
BoundaryOf(hit) == Boundary(hit.x, hit.y)

(***************************************************************************)
(* One call of the flat_map closure (lines 205-283) on `hit`, from walk    *)
(* state w = [y, last_hit, winding_number]: the new walk state, the        *)
(* Boundary it yields first and the span slot it leaves to be drained.     *)
(***************************************************************************)
HitStep(w, hit) ==
    LET r == RowReset(w, hit)
        new_edge == IsNewEdge(r.last_hit, hit)
        winding == WindingUpdate(r.winding_number, new_edge)
    IN  [y |-> r.y,
         last_hit |-> Some(hit),
         winding_number |-> winding,
         boundary |-> BoundaryOf(hit),
         span |-> SpanFor(r.last_hit, hit, new_edge, winding)]

\* The walk state at the start of regions(), lines 202-204.
WalkInit == [y |-> 0, last_hit |-> None, winding_number |-> 0]

\* regions(S) drained to its end: the whole region stream of hit set S.
RECURSIVE WalkFrom(_, _)
WalkFrom(w, S) ==
    IF S = {} THEN <<>>
    ELSE LET hit == FirstHit(S)
             s == HitStep(w, hit)
         IN  <<s.boundary>> \o s.span \o
             WalkFrom([y |-> s.y, last_hit |-> s.last_hit,
                       winding_number |-> s.winding_number], S \ {hit})

RegionsOf(S) == WalkFrom(WalkInit, S)

----------------------------------------------------------------------------
\* The hit sets handed to regions(): at most MaxHits hits, one per pixel,
\* each y_range inside its hit's row (the midpoint of the range floors to y).
Pixels == (0..MaxX) \X Rows

\* The y_ranges of positive height inside row yy.
RowRanges(yy) ==
    {Range(SubPixel * yy + ab[1], SubPixel * yy + ab[2]) :
        ab \in {cd \in (0..SubPixel) \X (0..SubPixel) : cd[1] < cd[2]}}

HitSetOver(PS, seg, rng) ==
    {Hit(p[1], p[2], rng[p], seg[p]) : p \in PS}

\* regions(hits) is called: lines 201-205.
InitWalk(S) ==
    /\ hits = S
    /\ iter = S
    /\ y = WalkInit.y
    /\ last_hit = WalkInit.last_hit
    /\ winding_number = WalkInit.winding_number
    /\ span = None
    /\ out = <<>>

Init ==
    /\ pc = "regions"
    /\ segments = <<>>
    /\ segment_id = 0
    /\ sample_depth = 0
    /\ cmds = <<>>
    /\ AuxIdle
    /\ \E PS \in {P \in SUBSET Pixels : Cardinality(P) <= MaxHits} :
         \E seg \in [PS -> SegIds] :
           \E off \in [PS -> RowRanges(0)] :
             InitWalk(HitSetOver(PS, seg,
                 [p \in PS |-> Range(off[p].start + SubPixel * p[2],
                                     off[p].end + SubPixel * p[2])]))

\* Mutant: a hit that continues the previous edge yields no Boundary.
PullHitBoundaryOnNewEdge ==
    /\ span = None
    /\ iter # {}
    /\ LET hit == FirstHit(iter)
           w == [y |-> y, last_hit |-> last_hit,
                 winding_number |-> winding_number]
           s == HitStep(w, hit)
       IN  /\ iter' = iter \ {hit}
           /\ y' = s.y
           /\ last_hit' = s.last_hit
           /\ winding_number' = s.winding_number
           /\ span' = s.span
           /\ out' = IF IsNewEdge(RowReset(w, hit).last_hit, hit)
                     THEN Append(out, s.boundary) ELSE out
    /\ UNCHANGED <<pc, segments, segment_id, hits, sample_depth>>

\* Mutant: the next hit is pulled while the span slot is still full.
PullHitWithoutDrain ==
    /\ iter # {}
    /\ LET hit == FirstHit(iter)
           s == HitStep([y |-> y, last_hit |-> last_hit,
                         winding_number |-> winding_number], hit)
       IN  /\ iter' = iter \ {hit}
           /\ y' = s.y
           /\ last_hit' = s.last_hit
           /\ winding_number' = s.winding_number
           /\ span' = IF IsSome(span) THEN span ELSE s.span
           /\ out' = Append(out, s.boundary)
    /\ UNCHANGED <<pc, segments, segment_id, hits, sample_depth>>

\* Mutant: the hit after the pulled one is consumed without being processed.
PullHitSkippingNext ==
    /\ span = None
    /\ iter # {}
    /\ LET hit == FirstHit(iter)
           s == HitStep([y |-> y, last_hit |-> last_hit,
                         winding_number |-> winding_number], hit)
           rest == iter \ {hit}
       IN  /\ iter' = IF rest = {} THEN rest ELSE rest \ {FirstHit(rest)}
           /\ y' = s.y
           /\ last_hit' = s.last_hit
           /\ winding_number' = s.winding_number
           /\ span' = s.span
           /\ out' = Append(out, s.boundary)
    /\ UNCHANGED <<pc, segments, segment_id, hits, sample_depth>>

\* flat_map pulls the next hit once the previous closure's iterator is
\* exhausted; the closure runs and its iterator yields the Boundary.
PullHit ==
    /\ span = None
    /\ iter # {}
    /\ LET hit == FirstHit(iter)
           s == HitStep([y |-> y, last_hit |-> last_hit,
                         winding_number |-> winding_number], hit)
       IN  /\ iter' = iter \ {hit}
           /\ y' = s.y
           /\ last_hit' = s.last_hit
           /\ winding_number' = s.winding_number
           /\ span' = s.span
           /\ out' = Append(out, s.boundary)
    /\ UNCHANGED <<pc, segments, segment_id, hits, sample_depth>>

\* successors(..., |_| span.take()): the second item of the closure's iterator.
TakeSpan ==
    /\ span # None
    /\ out' = Append(out, Unwrap(span))
    /\ span' = None
    /\ UNCHANGED <<pc, segments, segment_id, hits, iter, y, last_hit,
                   winding_number, sample_depth>>

\* regions(hits) drained directly, as the tests do.
NextHit == pc = "regions" /\ PullHit /\ UNCHANGED <<cmds, aux_vars>>

YieldSpan == pc = "regions" /\ TakeSpan /\ UNCHANGED <<cmds, aux_vars>>

\* The stream has ended: next() returns None.
Done == pc \in {"regions", "shade"} /\ iter = {} /\ span = None

Next == NextHit \/ YieldSpan

Spec == Init /\ [][Next]_vars

----------------------------------------------------------------------------
(***************************************************************************)
(* Hit sets of one long row: up to MaxRowHits hits in the columns          *)
(* 0..MaxRowX of one row, each of a segment that crosses the whole row     *)
(* (its y_range is the row's full height).                                 *)
(***************************************************************************)
MaxRowX == 6
MaxRowHits == 4

InitRow ==
    /\ pc = "regions"
    /\ segments = <<>>
    /\ segment_id = 0
    /\ sample_depth = 0
    /\ cmds = <<>>
    /\ AuxIdle
    /\ \E r \in Rows :
         \E C \in {D \in SUBSET (0..MaxRowX) : Cardinality(D) <= MaxRowHits} :
           \E seg \in [C -> SegIds] :
             InitWalk({Hit(c, r, Range(SubPixel * r, SubPixel * (r + 1)), seg[c]) :
                          c \in C})

SpecRow == InitRow /\ [][Next]_vars

\* The stream drained to its end: the consumer calls next() until None.
SpecDrain == Init /\ [][Next]_vars /\ WF_vars(Next)

----------------------------------------------------------------------------
(***************************************************************************)
(* RegionList::from.  A monotonics::Segment is a line from start to end,   *)
(* each a V2 <<x, y>> in fixed-point units.  The parameter t of a RawHit   *)
(* is a fixed-point value in units of f32::EPSILON (t = 1.0 is TUnit).     *)
(***************************************************************************)
TUnit == 8388608
EpsTolerance == 10

Min(a, b) == IF a <= b THEN a ELSE b
Max(a, b) == IF a <= b THEN b ELSE a

\* n / d of integers, d # 0, rounded toward minus infinity.
FloorDiv(n, d) == IF d > 0 THEN n \div d ELSE (-n) \div (-d)

Line(p0, p1) == [start |-> p0, end |-> p1]

\* Segment::bookends
Bookends(seg) == <<seg.start, seg.end>>

\* Segment::bounds
SegBounds(seg) ==
    [min |-> <<Min(seg.start[1], seg.end[1]), Min(seg.start[2], seg.end[2])>>,
     max |-> <<Max(seg.start[1], seg.end[1]), Max(seg.start[2], seg.end[2])>>]

\* The integers strictly between the fixed-point values lo and hi, ascending.
GridLinesBetween(lo, hi) ==
    LET first == FloorDiv(lo, SubPixel) + 1
        last == FloorDiv(hi - 1, SubPixel)
    IN  IF last < first THEN <<>>
        ELSE [i \in 1..(last - first + 1) |-> first + i - 1]

\* GridLinesIter::Bounds(bounds).horizontal() and .vertical()
Horizontal(bounds) == GridLinesBetween(bounds.min[2], bounds.max[2])
Vertical(bounds) == GridLinesBetween(bounds.min[1], bounds.max[1])

\* The parameter num / den in [0, 1], in units of f32::EPSILON.
TOf(num, den) ==
    LET n == Abs(num)
        d == Abs(den)
    IN  (2 * n * TUnit + d) \div (2 * d)

\* Segment::sample_y(y): where the line meets the horizontal line y.
SampleY(seg, yv) ==
    LET dx == seg.end[1] - seg.start[1]
        dy == seg.end[2] - seg.start[2]
        b == SegBounds(seg)
    IN  IF dy = 0 \/ yv < b.min[2] \/ yv > b.max[2] THEN None
        ELSE Some([axis |-> seg.start[1] + FloorDiv((yv - seg.start[2]) * dx, dy),
                   t |-> TOf(yv - seg.start[2], dy)])

\* Segment::sample_x(x): where the line meets the vertical line x.
SampleX(seg, xv) ==
    LET dx == seg.end[1] - seg.start[1]
        dy == seg.end[2] - seg.start[2]
        b == SegBounds(seg)
    IN  IF dx = 0 \/ xv < b.min[1] \/ xv > b.max[1] THEN None
        ELSE Some([axis |-> seg.start[2] + FloorDiv((xv - seg.start[1]) * dy, dx),
                   t |-> TOf(xv - seg.start[1], dx)])

\* RawHit (lines 80-84)
RawHit(position, t) == [position |-> position, t |-> t]

\* Mutant: raw hits at one position compare Equal.
RawHitCmpByPosition(a, b) ==
    IF a.position = b.position \/ Abs(a.t - b.t) <= EpsTolerance THEN "Equal"
    ELSE IF a.t < b.t THEN "Less" ELSE "Greater"

\* Mutant: raw hits compare by t alone, without the tolerance.
RawHitCmpWithoutTolerance(a, b) ==
    IF a.t = b.t THEN "Equal"
    ELSE IF a.t < b.t THEN "Less" ELSE "Greater"

\* impl Ord for RawHit (lines 90-98)
RawHitCmp(a, b) ==
    IF Abs(a.t - b.t) <= EpsTolerance THEN "Equal"
    ELSE IF a.t < b.t THEN "Less" ELSE "Greater"

\* Mutant: an Equal key of the set is replaced by the new one.
InsertRawReplacing(s, r) ==
    LET idx == {i \in 1..Len(s) : RawHitCmp(r, s[i]) # "Greater"}
    IN  IF idx = {} THEN Append(s, r)
        ELSE LET i == CHOOSE k \in idx : \A j \in idx : k <= j
             IN  IF RawHitCmp(r, s[i]) = "Equal"
                 THEN [s EXCEPT ![i] = r]
                 ELSE SubSeq(s, 1, i - 1) \o <<r>> \o SubSeq(s, i, Len(s))

\* BTreeSet<RawHit>::insert on the ordered set s (a sequence in iteration
\* order): the keys are searched from the left for the first one that the
\* new key is not greater than; an Equal key is kept and the new one dropped.
InsertRaw(s, r) ==
    LET idx == {i \in 1..Len(s) : RawHitCmp(r, s[i]) # "Greater"}
    IN  IF idx = {} THEN Append(s, r)
        ELSE LET i == CHOOSE k \in idx : \A j \in idx : k <= j
             IN  IF RawHitCmp(r, s[i]) = "Equal" THEN s
                 ELSE SubSeq(s, 1, i - 1) \o <<r>> \o SubSeq(s, i, Len(s))

\* Lines 130-138: the crossings of the horizontal grid lines, from line k on.
RECURSIVE InsertHorizontal(_, _, _, _)
InsertHorizontal(s, seg, lines, k) ==
    IF k > Len(lines) THEN s
    ELSE LET yv == SubPixel * lines[k]
             intersection == SampleY(seg, yv)
         IN  InsertHorizontal(
                 IF IsSome(intersection)
                 THEN InsertRaw(s, RawHit(<<Unwrap(intersection).axis, yv>>,
                                          Unwrap(intersection).t))
                 ELSE s,
                 seg, lines, k + 1)

\* Lines 140-148: the crossings of the vertical grid lines, from line k on.
RECURSIVE InsertVertical(_, _, _, _)
InsertVertical(s, seg, lines, k) ==
    IF k > Len(lines) THEN s
    ELSE LET xv == SubPixel * lines[k]
             intersection == SampleX(seg, xv)
         IN  InsertVertical(
                 IF IsSome(intersection)
                 THEN InsertRaw(s, RawHit(<<xv, Unwrap(intersection).axis>>,
                                          Unwrap(intersection).t))
                 ELSE s,
                 seg, lines, k + 1)

\* Lines 115-148: the segment's RawHit set, in iteration order.
SegmentRawHits(seg) ==
    LET bounds == SegBounds(seg)
        ends == InsertRaw(InsertRaw(<<>>, RawHit(Bookends(seg)[1], 0)),
                          RawHit(Bookends(seg)[2], TUnit))
    IN  InsertVertical(InsertHorizontal(ends, seg, Horizontal(bounds), 1),
                       seg, Vertical(bounds), 1)

\* ext::min_max
MinMax(a, b) == Range(Min(a, b), Max(a, b))

\* Mutant: the pixel is the floor of the second raw hit of the pair.
JoinedHitAtSecond(raw_hit1, raw_hit2, id) ==
    Hit(FloorDiv(raw_hit2.position[1], SubPixel),
        FloorDiv(raw_hit2.position[2], SubPixel),
        MinMax(raw_hit1.position[2], raw_hit2.position[2]),
        id)

\* n / d, d > 0, rounded toward zero.
TruncDiv(n, d) == IF n >= 0 THEN n \div d ELSE -((-n) \div d)

\* Mutant: the pixel is the midpoint truncated toward zero.
JoinedHitTruncating(raw_hit1, raw_hit2, id) ==
    Hit(TruncDiv(raw_hit1.position[1] + raw_hit2.position[1], 2 * SubPixel),
        TruncDiv(raw_hit1.position[2] + raw_hit2.position[2], 2 * SubPixel),
        MinMax(raw_hit1.position[2], raw_hit2.position[2]),
        id)

\* Lines 159-175: the Hit joined from two consecutive raw hits; the pixel is
\* the floor of their midpoint.
JoinedHit(raw_hit1, raw_hit2, id) ==
    Hit(FloorDiv(raw_hit1.position[1] + raw_hit2.position[1], 2 * SubPixel),
        FloorDiv(raw_hit1.position[2] + raw_hit2.position[2], 2 * SubPixel),
        MinMax(raw_hit1.position[2], raw_hit2.position[2]),
        id)

\* Lines 156-175: tuple_windows over the raw hits, in t order.
SegmentHits(seg, id) ==
    LET raw == SegmentRawHits(seg)
    IN  [i \in 1..(Len(raw) - 1) |-> JoinedHit(raw[i], raw[i + 1], id)]

\* Mutant: the set keeps every hit inserted.
InsertHitKeepingAll(S, h) == S \cup {h}

\* Mutant: a hit next to one of the set in its row is dropped as well.
InsertHitMergingNeighbours(S, h) ==
    IF \E g \in S : g.y = h.y /\ Abs(g.x - h.x) <= 1 THEN S ELSE S \cup {h}

\* Mutant: a hit equal to one of the set takes its place.
InsertHitReplacing(S, h) == {g \in S : ~HitEq(g, h)} \cup {h}

\* BTreeSet<Hit>::insert (line 177): a hit equal to one of the set (the same
\* pixel) is dropped and the one in the set kept.
InsertHit(S, h) == IF \E g \in S : HitEq(g, h) THEN S ELSE S \cup {h}

RECURSIVE InsertHits(_, _, _)
InsertHits(S, hs, k) ==
    IF k > Len(hs) THEN S ELSE InsertHits(InsertHit(S, hs[k]), hs, k + 1)

\* from(segs) run to its end: the hit set of the segment vector.
RECURSIVE HitsFrom(_, _, _)
HitsFrom(S, segs, k) ==
    IF k > Len(segs) THEN S
    ELSE HitsFrom(InsertHits(S, SegmentHits(segs[k], k - 1), 1), segs, k + 1)

HitsOf(segs) == HitsFrom({}, segs, 1)

----------------------------------------------------------------------------
(***************************************************************************)
(* The segment vectors handed to RegionList::from: the edges, in path      *)
(* order, of a closed path of four vertices on the pixel lattice.  The     *)
(* path's horizontal edges are not among them (the repository's tests      *)
(* show none of their pixels in the expected output), and every grid-line  *)
(* crossing of an edge falls on a fixed-point value.                       *)
(***************************************************************************)
Vertices == {<<SubPixel * vx, SubPixel * vy>> : vx \in 0..MaxPX, vy \in 0..MaxPY}

IsHorizontal(seg) == seg.start[2] = seg.end[2]
NotHorizontal(seg) == ~IsHorizontal(seg)

ExactCrossings(seg) ==
    LET dx == seg.end[1] - seg.start[1]
        dy == seg.end[2] - seg.start[2]
        b == SegBounds(seg)
        hs == Horizontal(b)
        vs == Vertical(b)
    IN  /\ \A k \in 1..Len(hs) :
              dy # 0 => ((SubPixel * hs[k] - seg.start[2]) * dx) % Abs(dy) = 0
        /\ \A k \in 1..Len(vs) :
              dx # 0 => ((SubPixel * vs[k] - seg.start[1]) * dy) % Abs(dx) = 0

PathEdges(v) ==
    [i \in 1..Len(v) |-> Line(v[i], v[(i % Len(v)) + 1])]

ClosedPaths ==
    {v \in Vertices \X Vertices \X Vertices \X Vertices :
        /\ \A i \in 1..4 : v[i] # v[(i % 4) + 1]
        /\ \A i \in 2..4 : v[1] = v[i] \/ PairLess(v[1], v[i])
        /\ \A i \in 1..4 : ExactCrossings(PathEdges(v)[i])}

\* The closed paths of three vertices.
Triangles ==
    {v \in Vertices \X Vertices \X Vertices :
        /\ \A i \in 1..3 : v[i] # v[(i % 3) + 1]
        /\ \A i \in 2..3 : PairLess(v[1], v[i])
        /\ \A i \in 1..3 : ExactCrossings(PathEdges(v)[i])}

SegmentsOfPath(v) == SelectSeq(PathEdges(v), NotHorizontal)

InitBuild ==
    /\ pc = "from"
    /\ \E v \in ClosedPaths :
         /\ segments = SegmentsOfPath(v)
         /\ segments # <<>>
    /\ segment_id = 0
    /\ hits = {}
    /\ iter = {}
    /\ y = WalkInit.y
    /\ last_hit = WalkInit.last_hit
    /\ winding_number = WalkInit.winding_number
    /\ span = None
    /\ out = <<>>
    /\ sample_depth = 0
    /\ cmds = <<>>
    /\ AuxIdle

\* One turn of the loop over segments.iter().enumerate(), lines 112-179.
FromSegment ==
    /\ pc = "from"
    /\ segment_id < Len(segments)
    /\ hits' = InsertHits(hits, SegmentHits(segments[segment_id + 1], segment_id), 1)
    /\ segment_id' = segment_id + 1
    /\ UNCHANGED <<pc, segments, iter, y, last_hit, winding_number, span, out,
                   sample_depth, cmds>>
    /\ UNCHANGED aux_vars

\* from() returns Self { segments, hits }, line 181.
FromReturn ==
    /\ pc = "from"
    /\ segment_id = Len(segments)
    /\ pc' = "built"
    /\ UNCHANGED <<segments, segment_id, hits, iter, y, last_hit,
                   winding_number, span, out, sample_depth, cmds>>
    /\ UNCHANGED aux_vars

\* RegionList::regions(regions.hits) is called on the built list.
Regions ==
    /\ pc = "built"
    /\ pc' = "regions"
    /\ iter' = hits
    /\ y' = WalkInit.y
    /\ last_hit' = WalkInit.last_hit
    /\ winding_number' = WalkInit.winding_number
    /\ span' = None
    /\ out' = <<>>
    /\ UNCHANGED <<segments, segment_id, hits, sample_depth, cmds>>
    /\ UNCHANGED aux_vars

NextBuild == FromSegment \/ FromReturn \/ Regions \/ NextHit \/ YieldSpan

SpecBuild == InitBuild /\ [][NextBuild]_vars

----------------------------------------------------------------------------
(***************************************************************************)
(* One turn of from()'s loop, raw hit by raw hit, for a segment so long    *)
(* that neighbouring grid lines cross it at parameters a few EPSILON       *)
(* apart.  The segment runs from <<0, 0>> to <<TUnit, TUnit>> in units of  *)
(* EPSILON of its length, so its point at parameter t is <<t, t>>.  The    *)
(* intersections are the Some(..) results of sample_y for the horizontal   *)
(* lines and then of sample_x for the vertical lines; each loop visits its *)
(* lines in ascending order, so its parameters ascend or descend.          *)
(***************************************************************************)
MaxHorizontal == 2
MaxVertical == 3

THalf == TUnit \div 2

\* Parameters at, just inside and just outside the tolerance of the
\* bookends, and three about the middle that are pairwise 6, 8 and 14 apart.
TValues == {3, EpsTolerance, EpsTolerance + 1,
            THalf, THalf + 6, THalf + 14,
            TUnit - EpsTolerance - 1, TUnit - EpsTolerance}

LongSegment == Line(<<0, 0>>, <<TUnit, TUnit>>)

PointAt(t) == <<t, t>>

\* The elements of the set T of integers as an ascending sequence.
RECURSIVE Ascending(_)
Ascending(T) ==
    IF T = {} THEN <<>>
    ELSE LET m == CHOOSE a \in T : \A b \in T : a <= b
         IN  <<m>> \o Ascending(T \ {m})

Reversed(s) == [i \in 1..Len(s) |-> s[Len(s) + 1 - i]]

\* The intersections one grid-line loop finds: at most n parameters, monotone.
Monotone(n) ==
    LET up == {Ascending(T) : T \in {U \in SUBSET TValues : Cardinality(U) <= n}}
    IN  up \cup {Reversed(s) : s \in up}

RawHitsAt(ts) == [i \in 1..Len(ts) |-> RawHit(PointAt(ts[i]), ts[i])]

InitRaw ==
    /\ pc = "bookends"
    /\ segments = <<LongSegment>>
    /\ segment_id = 0
    /\ hits = {}
    /\ iter = {}
    /\ y = WalkInit.y
    /\ last_hit = WalkInit.last_hit
    /\ winding_number = WalkInit.winding_number
    /\ span = None
    /\ out = <<>>
    /\ sample_depth = 0
    /\ cmds = <<>>
    /\ segment_hits = <<>>
    /\ \E h \in Monotone(MaxHorizontal), v \in Monotone(MaxVertical) :
         crossings = RawHitsAt(h \o v)
    /\ crossing_idx = 0
    /\ meshes = <<>>
    /\ mesh_idx = 0
    /\ layers = <<>>
    /\ meshes_in_layer = <<>>
    /\ layer_input = [kind |-> "Many", ts |-> <<>>]
    /\ yielded = <<>>
    /\ composition = <<>>

\* Lines 117-126: the set is created and the two bookends inserted.
InsertBookends ==
    /\ pc = "bookends"
    /\ segment_hits' =
         InsertRaw(InsertRaw(<<>>, RawHit(Bookends(segments[segment_id + 1])[1], 0)),
                   RawHit(Bookends(segments[segment_id + 1])[2], TUnit))
    /\ pc' = "crossings"
    /\ UNCHANGED <<segments, segment_id, hits, iter, y, last_hit,
                   winding_number, span, out, sample_depth, cmds>>
    /\ UNCHANGED <<crossings, crossing_idx, layer_vars>>

\* Lines 130-148: one segment_hits.insert of a grid-line intersection.
InsertCrossing ==
    /\ pc = "crossings"
    /\ crossing_idx < Len(crossings)
    /\ segment_hits' = InsertRaw(segment_hits, crossings[crossing_idx + 1])
    /\ crossing_idx' = crossing_idx + 1
    /\ UNCHANGED raster_vars
    /\ UNCHANGED <<crossings, layer_vars>>

\* Line 156: both loops are over and segment_hits.into_iter() is taken.
IntoIter ==
    /\ pc = "crossings"
    /\ crossing_idx = Len(crossings)
    /\ pc' = "joined"
    /\ UNCHANGED <<segments, segment_id, hits, iter, y, last_hit,
                   winding_number, span, out, sample_depth, cmds>>
    /\ UNCHANGED aux_vars

NextRaw == InsertBookends \/ InsertCrossing \/ IntoIter

SpecRaw == InitRaw /\ [][NextRaw]_vars

----------------------------------------------------------------------------
(***************************************************************************)
(* One turn of from()'s loop for a segment whose ends are next to a grid   *)
(* line, with the f32 arithmetic of lines 162-169.  Coordinates are in     *)
(* units of 2^-24, the spacing of f32 just below 1.0 (1.0 is Ulp); the     *)
(* f32 values from 1.0 up are the multiples of 2, from 2.0 up of 4, and so *)
(* on.  The segments meet the grid lines strictly inside their bounds at   *)
(* f32 values, so that the intersections need no rounding.                 *)
(***************************************************************************)
Ulp == 16777216

\* The spacing of f32 at n >= 0.
RECURSIVE Quantum(_)
Quantum(n) == IF n < Ulp THEN 1 ELSE 2 * Quantum(n \div 2)

\* The f32 nearest to n >= 0, ties to the even significand.
RoundF32(n) ==
    LET q == Quantum(n)
        lo == (n \div q) * q
        r == n - lo
    IN  IF 2 * r < q THEN lo
        ELSE IF 2 * r > q THEN lo + q
        ELSE IF (lo \div q) % 2 = 0 THEN lo ELSE lo + q

\* Lines 162-175 in f32: (raw_hit1.position + raw_hit2.position) / 2. rounds
\* each sum to f32; the halving and the floor are exact.
JoinedHitF32(raw_hit1, raw_hit2, id) ==
    Hit(FloorDiv(RoundF32(raw_hit1.position[1] + raw_hit2.position[1]), 2 * Ulp),
        FloorDiv(RoundF32(raw_hit1.position[2] + raw_hit2.position[2]), 2 * Ulp),
        MinMax(raw_hit1.position[2], raw_hit2.position[2]),
        id)

\* f32 coordinates at and next to the grid line 1 and the grid line 3.
FineNear == {{Ulp - 2, Ulp - 1, Ulp, Ulp + 2, Ulp + 4},
             {3 * Ulp - 4, 3 * Ulp, 3 * Ulp + 4}}

\* The pairs of coordinates next to one grid line.
FinePairs == UNION {N \X N : N \in FineNear}

\* The grid lines that can lie strictly between two of the coordinates.
FineLines == <<1, 2, 3>>

\* Whether the grid line k is strictly between the coordinates a and b.
Between(k, a, b) == Min(a, b) < k * Ulp /\ k * Ulp < Max(a, b)

\* The line meets every grid line strictly inside its bounds at an f32.
ExactOnGrid(seg) ==
    LET dx == seg.end[1] - seg.start[1]
        dy == seg.end[2] - seg.start[2]
    IN  \A i \in 1..Len(FineLines) :
            LET g == FineLines[i] * Ulp IN
            /\ Between(FineLines[i], seg.start[2], seg.end[2]) =>
                 /\ ((g - seg.start[2]) * dx) % Abs(dy) = 0
                 /\ RoundF32(Unwrap(SampleY(seg, g)).axis) = Unwrap(SampleY(seg, g)).axis
            /\ Between(FineLines[i], seg.start[1], seg.end[1]) =>
                 /\ ((g - seg.start[1]) * dy) % Abs(dx) = 0
                 /\ RoundF32(Unwrap(SampleX(seg, g)).axis) = Unwrap(SampleX(seg, g)).axis

\* Segments a few f32 steps long that start and end next to a lattice point.
FineSegments ==
    {seg \in {Line(<<xs[1], ys[1]>>, <<xs[2], ys[2]>>) :
                 xs \in FinePairs, ys \in FinePairs} :
        ExactOnGrid(seg)}

\* Lines 130-138 and 140-148: the intersections of the segment with the
\* horizontal lines and then with the vertical lines strictly inside its
\* bounds, each in ascending order of the line.
FineCrossings(seg) ==
    LET InY(k) == Between(k, seg.start[2], seg.end[2])
        InX(k) == Between(k, seg.start[1], seg.end[1])
        hs == SelectSeq(FineLines, InY)
        vs == SelectSeq(FineLines, InX)
    IN  [i \in 1..Len(hs) |->
            LET it == Unwrap(SampleY(seg, hs[i] * Ulp))
            IN  RawHit(<<it.axis, hs[i] * Ulp>>, it.t)]
        \o
        [i \in 1..Len(vs) |->
            LET it == Unwrap(SampleX(seg, vs[i] * Ulp))
            IN  RawHit(<<vs[i] * Ulp, it.axis>>, it.t)]

RECURSIVE InsertAll(_, _, _)
InsertAll(s, raws, k) ==
    IF k > Len(raws) THEN s ELSE InsertAll(InsertRaw(s, raws[k]), raws, k + 1)

\* Lines 117-148 run to their end: the segment's RawHit set.
FineRawHits(seg) ==
    InsertAll(InsertRaw(InsertRaw(<<>>, RawHit(Bookends(seg)[1], 0)),
                        RawHit(Bookends(seg)[2], TUnit)),
              FineCrossings(seg), 1)

\* Lines 156-175: the hits joined from the segment's consecutive raw hits.
FineHits(seg, id) ==
    LET raw == FineRawHits(seg)
    IN  [i \in 1..(Len(raw) - 1) |-> JoinedHitF32(raw[i], raw[i + 1], id)]

\* The segment vectors: one segment, or two of which the second starts
\* where the first ends and ends in the first's column.
FineVectors ==
    {<<seg>> : seg \in FineSegments}
    \cup UNION {{<<seg, nxt>> : nxt \in {n \in FineSegments :
                                           /\ n.start = seg.end
                                           /\ n.end[1] = seg.start[1]
                                           /\ seg.start # seg.end}} :
                seg \in FineSegments}

InitFine ==
    /\ pc = "from"
    /\ segments \in FineVectors
    /\ segment_id = 0
    /\ hits = {}
    /\ iter = {}
    /\ y = WalkInit.y
    /\ last_hit = WalkInit.last_hit
    /\ winding_number = WalkInit.winding_number
    /\ span = None
    /\ out = <<>>
    /\ sample_depth = 0
    /\ cmds = <<>>
    /\ AuxIdle

\* Lines 112-117: the loop takes the next segment and creates its raw hit
\* set; the grid lines inside its bounds are the ones the loops will visit.
BeginSegment ==
    /\ pc = "from"
    /\ segment_id < Len(segments)
    /\ pc' = "bookends"
    /\ segment_hits' = <<>>
    /\ crossings' = FineCrossings(segments[segment_id + 1])
    /\ crossing_idx' = 0
    /\ UNCHANGED <<segments, segment_id, hits, iter, y, last_hit,
                   winding_number, span, out, sample_depth, cmds>>
    /\ UNCHANGED layer_vars

\* Lines 156-178: the consecutive raw hits are joined and the hits inserted.
JoinWindows ==
    /\ pc = "joined"
    /\ hits' = InsertHits(hits,
                          [i \in 1..(Len(segment_hits) - 1) |->
                              JoinedHitF32(segment_hits[i], segment_hits[i + 1],
                                           segment_id)],
                          1)
    /\ segment_id' = segment_id + 1
    /\ pc' = "from"
    /\ UNCHANGED <<segments, iter, y, last_hit, winding_number, span, out,
                   sample_depth, cmds>>
    /\ UNCHANGED aux_vars

NextFine ==
    \/ BeginSegment
    \/ InsertBookends
    \/ InsertCrossing
    \/ IntoIter
    \/ JoinWindows
    \/ FromReturn

SpecFine == InitFine /\ [][NextFine]_vars

----------------------------------------------------------------------------
(***************************************************************************)
(* Segment vectors with a degenerate segment: the segments of a closed     *)
(* path of three vertices and, at any place of the vector, a segment of    *)
(* zero length that starts and ends on one of the path's vertices.         *)
(***************************************************************************)
IsDegenerate(seg) == seg.start = seg.end

InsertAt(s, k, e) == SubSeq(s, 1, k - 1) \o <<e>> \o SubSeq(s, k, Len(s))

InitDegenerate ==
    /\ pc = "from"
    /\ \E v \in Triangles :
         \E j \in 1..3 :
           \E k \in 1..(Len(SegmentsOfPath(v)) + 1) :
             /\ SegmentsOfPath(v) # <<>>
             /\ segments = InsertAt(SegmentsOfPath(v), k, Line(v[j], v[j]))
    /\ segment_id = 0
    /\ hits = {}
    /\ iter = {}
    /\ y = WalkInit.y
    /\ last_hit = WalkInit.last_hit
    /\ winding_number = WalkInit.winding_number
    /\ span = None
    /\ out = <<>>
    /\ sample_depth = 0
    /\ cmds = <<>>
    /\ AuxIdle

SpecDegenerate == InitDegenerate /\ [][NextBuild]_vars

----------------------------------------------------------------------------
(***************************************************************************)
(* Segment vectors of geometry that reaches left of x = 0: the segments of *)
(* a closed path of three vertices moved left by a whole number of pixels. *)
(***************************************************************************)
LeftShifts == {1, 2}

ShiftLeft(v, d) == [i \in 1..Len(v) |-> <<v[i][1] - SubPixel * d, v[i][2]>>]

InitLeft ==
    /\ pc = "from"
    /\ \E v \in Triangles :
         \E d \in LeftShifts :
           /\ segments = SegmentsOfPath(ShiftLeft(v, d))
           /\ segments # <<>>
    /\ segment_id = 0
    /\ hits = {}
    /\ iter = {}
    /\ y = WalkInit.y
    /\ last_hit = WalkInit.last_hit
    /\ winding_number = WalkInit.winding_number
    /\ span = None
    /\ out = <<>>
    /\ sample_depth = 0
    /\ cmds = <<>>
    /\ AuxIdle

SpecLeft == InitLeft /\ [][NextBuild]_vars

----------------------------------------------------------------------------
(***************************************************************************)
(* RegionList::shade_commands.  The coverage estimator and SampleDepth     *)
(* live in the sampling module: a pattern of sample_depth points in the    *)
(* pixel, each inside when the ray from it toward +x crosses an odd number *)
(* of segments; coverage is the fraction of the samples that are inside,   *)
(* modelled as the pair of the two counts.                                 *)
(***************************************************************************)
SampleDepths == {1, 4, 8, 16, 32, 64}

\* The sample grid of a depth: columns and rows, columns * rows = depth.
GridOf(depth) ==
    CASE depth = 1 -> <<1, 1>>
      [] depth = 4 -> <<2, 2>>
      [] depth = 8 -> <<4, 2>>
      [] depth = 16 -> <<4, 4>>
      [] depth = 32 -> <<8, 4>>
      [] depth = 64 -> <<8, 8>>

\* Sample positions are in units of 1/SampleUnit of a pixel.
SampleUnit == 16

\* The samples of the pixel at p = <<x, y>>: the centres of the grid cells.
SamplePattern(p, depth) ==
    LET g == GridOf(depth) IN
    {<<SampleUnit * p[1] + ((2 * i + 1) * SampleUnit) \div (2 * g[1]),
       SampleUnit * p[2] + ((2 * j + 1) * SampleUnit) \div (2 * g[2])>> :
        i \in 0..(g[1] - 1), j \in 0..(g[2] - 1)}

\* Whether the ray from sample q toward +x crosses the segment: q's y lies
\* in the segment's y extent and the segment is not left of q there.
RayCrosses(q, seg) ==
    LET k == SampleUnit \div SubPixel
        x0 == k * seg.start[1]
        y0 == k * seg.start[2]
        dx == k * (seg.end[1] - seg.start[1])
        dy == k * (seg.end[2] - seg.start[2])
    IN  /\ dy # 0
        /\ Min(y0, y0 + dy) <= q[2]
        /\ q[2] < Max(y0, y0 + dy)
        /\ IF dy > 0 THEN (q[2] - y0) * dx >= (q[1] - x0) * dy
                     ELSE (q[2] - y0) * dx <= (q[1] - x0) * dy

Crossings(q, segs) == Cardinality({k \in 1..Len(segs) : RayCrosses(q, segs[k])})

\* Mutant: the crossings of all samples are summed.
CoverageSummingCrossings(p, depth, segs) ==
    LET pattern == SamplePattern(p, depth) IN
    [inside |-> Cardinality({<<q, k>> \in pattern \X (1..Len(segs)) :
                                 RayCrosses(q, segs[k])}),
     total |-> Cardinality(pattern)]

\* coverage(p, sample_depth, segments): inside samples over all samples.
Coverage(p, depth, segs) ==
    LET pattern == SamplePattern(p, depth) IN
    [inside |-> Cardinality({q \in pattern : Crossings(q, segs) % 2 = 1}),
     total |-> Cardinality(pattern)]

\* ShadeCommand (lines 35-44)
ShadeBoundary(x, yy, coverage) ==
    [kind |-> "Boundary", x |-> x, y |-> yy, coverage |-> coverage]
ShadeSpan(x_range, yy) == [kind |-> "Span", x |-> x_range, y |-> yy]

\* Mutant: the span's range takes end_x in.
ShadeCommandInclusive(region, depth, segs) ==
    IF region.kind = "Boundary"
    THEN ShadeBoundary(region.x, region.y,
                       Coverage(<<region.x, region.y>>, depth, segs))
    ELSE ShadeSpan(Range(region.start_x, region.end_x + 1), region.y)

\* The closure of shade_commands (lines 188-198).
ShadeCommandOf(region, depth, segs) ==
    IF region.kind = "Boundary"
    THEN ShadeBoundary(region.x, region.y,
                       Coverage(<<region.x, region.y>>, depth, segs))
    ELSE ShadeSpan(Range(region.start_x, region.end_x), region.y)

InitShade ==
    /\ pc = "from"
    /\ \E v \in Triangles :
         /\ segments = SegmentsOfPath(v)
         /\ segments # <<>>
    /\ segment_id = 0
    /\ hits = {}
    /\ iter = {}
    /\ y = WalkInit.y
    /\ last_hit = WalkInit.last_hit
    /\ winding_number = WalkInit.winding_number
    /\ span = None
    /\ out = <<>>
    /\ sample_depth = 0
    /\ cmds = <<>>
    /\ AuxIdle

\* shade_commands(self, sample_depth) is called on the built list: it moves
\* the segments out and starts regions(self.hits), lines 186-188.
ShadeCommands ==
    /\ pc = "built"
    /\ pc' = "shade"
    /\ \E depth \in SampleDepths : sample_depth' = depth
    /\ iter' = hits
    /\ y' = WalkInit.y
    /\ last_hit' = WalkInit.last_hit
    /\ winding_number' = WalkInit.winding_number
    /\ span' = None
    /\ out' = <<>>
    /\ cmds' = <<>>
    /\ UNCHANGED <<segments, segment_id, hits>>
    /\ UNCHANGED aux_vars

\* One item of the mapped stream: a region pulled from regions() and mapped.
ShadeNextHit ==
    /\ pc = "shade"
    /\ PullHit
    /\ cmds' = Append(cmds, ShadeCommandOf(out'[Len(out')], sample_depth, segments))
    /\ UNCHANGED aux_vars

ShadeYieldSpan ==
    /\ pc = "shade"
    /\ TakeSpan
    /\ cmds' = Append(cmds, ShadeCommandOf(out'[Len(out')], sample_depth, segments))
    /\ UNCHANGED aux_vars

NextShade ==
    FromSegment \/ FromReturn \/ ShadeCommands \/ ShadeNextHit \/ ShadeYieldSpan

SpecShade == InitShade /\ [][NextShade]_vars

----------------------------------------------------------------------------
(***************************************************************************)
(* LayerInput::from(Vec<Mesh>), composition/assembly.rs lines 65-90.  A    *)
(* Mesh is its blend_mode and the rest of its content; a Layer::MeshGroup  *)
(* is its shader and its meshes.  MAX_MESHES is imported from gpu::render. *)
(***************************************************************************)
MAX_MESHES == 3

MaxMeshes == 5
BlendModes == {"Normal", "Add"}
Contents == {1, 2}

Mesh(blend_mode, content) == [blend_mode |-> blend_mode, content |-> content]

MeshGroup(shader, ms) == [shader |-> shader, meshes |-> ms]

\* LayerInput (lines 60-63): Single(Layer) or Many(Vec<Layer>).
Single(layer) == [kind |-> "Single", ts |-> <<layer>>]
Many(ts) == [kind |-> "Many", ts |-> ts]

MeshVectors ==
    UNION {[1..n -> {Mesh(b, c) : b \in BlendModes, c \in Contents}] : n \in 0..MaxMeshes}

\* Mutant: the layer takes meshes up to MAX_MESHES.
FitsUpToMaxMeshes(in_layer, mesh) ==
    /\ Len(in_layer) < MAX_MESHES
    /\ IF in_layer = <<>> THEN TRUE
       ELSE in_layer[1].blend_mode = mesh.blend_mode

\* Lines 70-71: the mesh joins the layer being filled.
FitsInLayer(in_layer, mesh) ==
    /\ Len(in_layer) + 1 < MAX_MESHES
    /\ IF in_layer = <<>> THEN TRUE
       ELSE in_layer[1].blend_mode = mesh.blend_mode

\* Mutant: the layer begun after a flush is empty.
NewLayerWithoutMesh(mesh) == <<>>

\* Line 79: meshes_in_layer = vec![mesh]
NewLayerOf(mesh) == <<mesh>>

InitLayers ==
    /\ pc = "batch"
    /\ segments = <<>>
    /\ segment_id = 0
    /\ hits = {}
    /\ iter = {}
    /\ y = WalkInit.y
    /\ last_hit = WalkInit.last_hit
    /\ winding_number = WalkInit.winding_number
    /\ span = None
    /\ out = <<>>
    /\ sample_depth = 0
    /\ cmds = <<>>
    /\ segment_hits = <<>>
    /\ crossings = <<>>
    /\ crossing_idx = 0
    /\ meshes \in MeshVectors
    /\ mesh_idx = 0
    /\ layers = <<>>
    /\ meshes_in_layer = <<>>
    /\ layer_input = [kind |-> "Many", ts |-> <<>>]
    /\ yielded = <<>>
    /\ composition = <<>>

\* Lines 69-73: the next mesh is pushed onto the layer being filled.
PushMesh ==
    /\ pc = "batch"
    /\ mesh_idx < Len(meshes)
    /\ FitsInLayer(meshes_in_layer, meshes[mesh_idx + 1])
    /\ meshes_in_layer' = Append(meshes_in_layer, meshes[mesh_idx + 1])
    /\ mesh_idx' = mesh_idx + 1
    /\ UNCHANGED <<raster_vars, raw_vars, meshes, layers, layer_input, yielded,
                   composition>>

\* Lines 74-80: the layer being filled is pushed as a MeshGroup and the next
\* mesh begins a new one.
FlushLayer ==
    /\ pc = "batch"
    /\ mesh_idx < Len(meshes)
    /\ ~FitsInLayer(meshes_in_layer, meshes[mesh_idx + 1])
    /\ layers' = Append(layers, MeshGroup("Default", meshes_in_layer))
    /\ meshes_in_layer' = NewLayerOf(meshes[mesh_idx + 1])
    /\ mesh_idx' = mesh_idx + 1
    /\ UNCHANGED <<raster_vars, raw_vars, meshes, layer_input, yielded,
                   composition>>

\* Lines 83-89: the last layer, if it has a mesh, is pushed and
\* LayerInput::Many(layers) returned.
ReturnMany ==
    /\ pc = "batch"
    /\ mesh_idx = Len(meshes)
    /\ layers' = IF meshes_in_layer # <<>>
                 THEN Append(layers, MeshGroup("Default", meshes_in_layer))
                 ELSE layers
    /\ meshes_in_layer' = <<>>
    /\ layer_input' = Many(layers')
    /\ pc' = "batched"
    /\ UNCHANGED <<segments, segment_id, hits, iter, y, last_hit,
                   winding_number, span, out, sample_depth, cmds>>
    /\ UNCHANGED <<raw_vars, meshes, mesh_idx, yielded, composition>>

NextLayers == PushMesh \/ FlushLayer \/ ReturnMany

SpecLayers == InitLayers /\ [][NextLayers]_vars

----------------------------------------------------------------------------
(***************************************************************************)
(* impl Iterator for LayerInput, composition/assembly.rs lines 98-116: a   *)
(* LayerInput is built and next() is called on it, also after it has       *)
(* returned None.                                                          *)
(***************************************************************************)
MaxLayers == 3
MaxNoneCalls == 2

\* Layer::Mesh (lines 10-13)
MeshLayer(shader, mesh) == [shader |-> shader, mesh |-> mesh]

\* The layers a LayerInput holds here: a Layer::Mesh or a Layer::MeshGroup
\* of one or two meshes, of either blend mode.
SomeLayers ==
    {MeshLayer("Default", Mesh(b, 1)) : b \in BlendModes}
    \cup {MeshGroup("Default", <<Mesh(b, 1)>>) : b \in BlendModes}
    \cup {MeshGroup("Default", <<Mesh(b, 1), Mesh(b, 2)>>) : b \in BlendModes}

LayerInputs ==
    {Single(l) : l \in SomeLayers}
    \cup {Many(ts) : ts \in UNION {[1..n -> SomeLayers] : n \in 0..MaxLayers}}

\* Mutant: Many yields its layers from the front of the vector.
IteratorNextFromFront(li) ==
    IF li.kind = "Single"
    THEN [output |-> Some(li.ts[1]), self |-> Many(<<>>)]
    ELSE IF li.ts = <<>>
         THEN [output |-> None, self |-> Many(<<>>)]
         ELSE [output |-> Some(Head(li.ts)), self |-> Many(Tail(li.ts))]

\* Iterator::next (lines 100-115): the output and the LayerInput left in
\* *self.  Single(il) gives Some(il) and leaves an empty Many; Many(ts)
\* gives ts.pop() and leaves Many of the rest.
IteratorNext(li) ==
    IF li.kind = "Single"
    THEN [output |-> Some(li.ts[1]), self |-> Many(<<>>)]
    ELSE IF li.ts = <<>>
         THEN [output |-> None, self |-> Many(<<>>)]
         ELSE [output |-> Some(li.ts[Len(li.ts)]),
               self |-> Many(SubSeq(li.ts, 1, Len(li.ts) - 1))]

IsNone(o) == o = None

InitIter ==
    /\ pc = "iter"
    /\ segments = <<>>
    /\ segment_id = 0
    /\ hits = {}
    /\ iter = {}
    /\ y = WalkInit.y
    /\ last_hit = WalkInit.last_hit
    /\ winding_number = WalkInit.winding_number
    /\ span = None
    /\ out = <<>>
    /\ sample_depth = 0
    /\ cmds = <<>>
    /\ segment_hits = <<>>
    /\ crossings = <<>>
    /\ crossing_idx = 0
    /\ meshes = <<>>
    /\ mesh_idx = 0
    /\ layers = <<>>
    /\ meshes_in_layer = <<>>
    /\ layer_input \in LayerInputs
    /\ yielded = <<>>
    /\ composition = <<>>

\* One call of next() on the LayerInput.
CallNext ==
    /\ pc = "iter"
    /\ Len(SelectSeq(yielded, IsNone)) < MaxNoneCalls
    /\ layer_input' = IteratorNext(layer_input).self
    /\ yielded' = Append(yielded, IteratorNext(layer_input).output)
    /\ UNCHANGED <<raster_vars, raw_vars, meshes, mesh_idx, layers,
                   meshes_in_layer, composition>>

NextIter == CallNext

SpecIter == InitIter /\ [][NextIter]_vars

----------------------------------------------------------------------------
(***************************************************************************)
(* Composition (lines 118-136): add() is called with a Mesh, which becomes *)
(* LayerInput::Single(Layer::Mesh), or with a Vec<Mesh>, which the loop of *)
(* LayerInput::from batches; Vec::extend then calls next() until None and  *)
(* pushes every layer it gets.                                             *)
(***************************************************************************)
MaxAddMeshes == 3
MaxComposed == 2

AddVectors == {v \in MeshVectors : Len(v) <= MaxAddMeshes}

\* Mutant: the layer is put in front of the composition's layers.
ExtendAtFront(ls, layer) == <<layer>> \o ls

\* Vec::extend pushes the layer at the end of self.layers (line 130).
Extend(ls, layer) == Append(ls, layer)

\* Composition::new(), line 125
InitCompose ==
    /\ pc = "compose"
    /\ segments = <<>>
    /\ segment_id = 0
    /\ hits = {}
    /\ iter = {}
    /\ y = WalkInit.y
    /\ last_hit = WalkInit.last_hit
    /\ winding_number = WalkInit.winding_number
    /\ span = None
    /\ out = <<>>
    /\ sample_depth = 0
    /\ cmds = <<>>
    /\ AuxIdle

\* add(mesh): layer.into() is LayerInput::Single(Layer::from(mesh)),
\* lines 24-31 and 92-96.
AddMesh ==
    /\ pc = "compose"
    /\ Len(composition) < MaxComposed
    /\ \E b \in BlendModes, c \in Contents :
         layer_input' = Single(MeshLayer("Default", Mesh(b, c)))
    /\ yielded' = <<>>
    /\ meshes' = <<>>
    /\ mesh_idx' = 0
    /\ layers' = <<>>
    /\ meshes_in_layer' = <<>>
    /\ pc' = "extend"
    /\ UNCHANGED <<segments, segment_id, hits, iter, y, last_hit,
                   winding_number, span, out, sample_depth, cmds>>
    /\ UNCHANGED <<raw_vars, composition>>

\* add(meshes): layer.into() enters LayerInput::from(Vec<Mesh>), line 66.
AddMeshes ==
    /\ pc = "compose"
    /\ Len(composition) < MaxComposed
    /\ meshes' \in AddVectors
    /\ mesh_idx' = 0
    /\ layers' = <<>>
    /\ meshes_in_layer' = <<>>
    /\ yielded' = <<>>
    /\ pc' = "batch"
    /\ UNCHANGED <<segments, segment_id, hits, iter, y, last_hit,
                   winding_number, span, out, sample_depth, cmds>>
    /\ UNCHANGED <<raw_vars, layer_input, composition>>

\* self.layers.extend(..), line 130: one call of next(); a layer is pushed,
\* and on None extend is over and add returns self.
ExtendNext ==
    /\ pc \in {"batched", "extend"}
    /\ layer_input' = IteratorNext(layer_input).self
    /\ yielded' = Append(yielded, IteratorNext(layer_input).output)
    /\ IF IsSome(IteratorNext(layer_input).output)
       THEN /\ composition' = Extend(composition,
                                     Unwrap(IteratorNext(layer_input).output))
            /\ pc' = "extend"
       ELSE /\ composition' = composition
            /\ pc' = "compose"
    /\ UNCHANGED <<segments, segment_id, hits, iter, y, last_hit,
                   winding_number, span, out, sample_depth, cmds>>
    /\ UNCHANGED <<raw_vars, meshes, mesh_idx, layers, meshes_in_layer>>

\* Composition::layers(self), lines 134-136: the vector is handed out.
TakeLayers ==
    /\ pc = "compose"
    /\ pc' = "layers"
    /\ UNCHANGED <<segments, segment_id, hits, iter, y, last_hit,
                   winding_number, span, out, sample_depth, cmds>>
    /\ UNCHANGED aux_vars

NextCompose ==
    \/ AddMesh
    \/ AddMeshes
    \/ PushMesh
    \/ FlushLayer
    \/ ReturnMany
    \/ ExtendNext
    \/ TakeLayers

SpecCompose == InitCompose /\ [][NextCompose]_vars

----------------------------------------------------------------------------
(***************************************************************************)
(* Properties of the region stream.                                        *)
(***************************************************************************)
IsBoundary(r) == r.kind = "Boundary"
IsSpan(r) == r.kind = "Span"

Boundaries(s) == SelectSeq(s, IsBoundary)
Spans(s) == SelectSeq(s, IsSpan)

\* The key (y, start_x): x for a Boundary, start_x for a Span.
StartKey(r) == IF IsBoundary(r) THEN <<r.y, r.x>> ELSE <<r.y, r.start_x>>

\* The key (y, x_right, kind): x for a Boundary and end_x for a Span, a
\* Boundary before a Span.
RightKey(r) == IF IsBoundary(r) THEN <<r.y, r.x, 0>> ELSE <<r.y, r.end_x, 1>>

TripleLess(a, b) ==
    \/ a[1] < b[1]
    \/ a[1] = b[1] /\ a[2] < b[2]
    \/ a[1] = b[1] /\ a[2] = b[2] /\ a[3] < b[3]

\* C1 as stated: the region stream is strictly increasing in (y, start_x),
\* start_x being x for a Boundary: every command's key is greater than the
\* key of the command yielded just before it.
C1_StrictByStartX ==
    \A i \in 1..(Len(out) - 1) : PairLess(StartKey(out[i]), StartKey(out[i + 1]))

\* C1 amended: the region stream is strictly increasing in (y, x_right, kind),
\* x_right being x for a Boundary and end_x for a Span and a Boundary sorting
\* before a Span; a Span directly follows the Boundary at its end_x, so its
\* start_x lies left of the command before it.
C1_StrictByRightEnd ==
    \A i \in 1..(Len(out) - 1) :
        /\ TripleLess(RightKey(out[i]), RightKey(out[i + 1]))
        /\ IsSpan(out[i + 1]) =>
              /\ out[i] = Boundary(out[i + 1].end_x, out[i + 1].y)
              /\ PairLess(StartKey(out[i + 1]), StartKey(out[i]))

\* A Span has been yielded and a Boundary of the same row after it.
C1_Witness ==
    \E i \in 1..(Len(out) - 1) :
        IsSpan(out[i]) /\ IsBoundary(out[i + 1]) /\ out[i + 1].y = out[i].y

\* C2: the y of the yielded regions never decreases, and the Boundary
\* regions taken alone are strictly increasing in (y, x).
C2_RowsAscendBoundariesStrict ==
    /\ \A i \in 1..(Len(out) - 1) : out[i].y <= out[i + 1].y
    /\ LET b == Boundaries(out) IN
       \A i \in 1..(Len(b) - 1) : PairLess(<<b[i].y, b[i].x>>, <<b[i + 1].y, b[i + 1].x>>)

\* Boundaries of two rows have been yielded, two of them in the later row.
C2_Witness ==
    LET b == Boundaries(out) IN
    /\ Len(b) >= 3
    /\ b[1].y < b[2].y
    /\ b[2].y = b[3].y

\* C3: every Span yielded is non-empty, end_x > start_x.
C3_SpansNonEmpty ==
    \A i \in 1..Len(out) : IsSpan(out[i]) => out[i].end_x > out[i].start_x

\* A Span of one pixel, between hits two columns apart, has been yielded.
C3_Witness ==
    \E i \in 1..Len(out) : IsSpan(out[i]) /\ out[i].end_x - out[i].start_x = 1

\* C4: no pixel yielded as a Boundary lies inside [start_x, end_x) of a
\* Span yielded for the same row.
C4_BoundaryOutsideSpans ==
    \A i, j \in 1..Len(out) :
        (IsBoundary(out[i]) /\ IsSpan(out[j]) /\ out[i].y = out[j].y)
            => ~(out[j].start_x <= out[i].x /\ out[i].x < out[j].end_x)

\* A row holds a Span with Boundaries on both of its sides and a third one.
C4_Witness ==
    \E j \in 1..Len(out) :
        /\ IsSpan(out[j])
        /\ Cardinality({i \in 1..Len(out) :
               IsBoundary(out[i]) /\ out[i].y = out[j].y}) = 3

\* Translation of a hit set and of a region stream by (dx, dy) pixels.
TranslateHits(S, dx, dy) ==
    {Hit(h.x + dx, h.y + dy,
         Range(h.y_range.start + SubPixel * dy, h.y_range.end + SubPixel * dy),
         h.segment_id) : h \in S}

TranslateRegion(r, dx, dy) ==
    IF IsBoundary(r) THEN Boundary(r.x + dx, r.y + dy)
    ELSE Span(r.start_x + dx, r.end_x + dx, r.y + dy)

TranslateRegions(s, dx, dy) ==
    [i \in 1..Len(s) |-> TranslateRegion(s[i], dx, dy)]

Shifts == (-1..1) \X (-3..3)

\* C5 as stated: the walk of the hit set translated by (dx, dy) yields the
\* regions of the walk of the hit set, each translated by (dx, dy).
C5_TranslationInvariant ==
    Done => \A d \in Shifts :
        RegionsOf(TranslateHits(hits, d[1], d[2])) = TranslateRegions(out, d[1], d[2])

\* The closed path traversed in the opposite direction: the segment vector
\* reversed, each segment running from its end to its start.
OppositeTraversal(segs) ==
    [i \in 1..Len(segs) |->
        Line(segs[Len(segs) + 1 - i].end, segs[Len(segs) + 1 - i].start)]

RegionSet(s) == {s[i] : i \in 1..Len(s)}

\* C6 as stated: the opposite traversal of the closed path yields the same
\* set of regions, the same Boundary pixels and the same Spans.
C6_OppositeTraversalSameRegions ==
    (pc = "regions" /\ Done) =>
        RegionSet(RegionsOf(HitsOf(OppositeTraversal(segments)))) = RegionSet(out)

\* Every candidate hit of the segment vector: the hits joined from the
\* consecutive raw hits of each segment.
CandidateHits(segs) ==
    UNION {RegionSet(SegmentHits(segs[k], k - 1)) : k \in 1..Len(segs)}

\* C7: the hit set holds at most one hit per pixel, whatever the segments
\* that produced a candidate for it; the pixel is yielded as a Boundary at
\* most once, and the winding number of a row never exceeds the number of
\* Boundaries yielded for that row.
C7_OneHitPerPixel ==
    /\ \A g, h \in hits : HitEq(g, h) => g = h
    /\ LET b == Boundaries(out) IN
       /\ \A i, j \in 1..Len(b) : (b[i].x = b[j].x /\ b[i].y = b[j].y) => i = j
       /\ winding_number <= Cardinality({i \in 1..Len(b) : b[i].y = y})

\* The stream has ended for a segment vector two of whose segments produced
\* a candidate hit for the same pixel, which was yielded as a Boundary.
C7_Witness ==
    /\ pc = "regions"
    /\ Done
    /\ \E c, d \in CandidateHits(segments) :
          /\ HitEq(c, d)
          /\ c.segment_id # d.segment_id
          /\ \E i \in 1..Len(out) : out[i] = Boundary(c.x, c.y)

\* C8: every hit consumed has yielded exactly one Boundary, at its own
\* pixel: the Boundaries are as many as the hits consumed and their pixels
\* are the pixels of those hits.
C8_OneBoundaryPerHit ==
    LET b == Boundaries(out) IN
    /\ Len(b) = Cardinality(hits \ iter)
    /\ {<<b[i].x, b[i].y>> : i \in 1..Len(b)} = {<<h.x, h.y>> : h \in hits \ iter}

\* The stream has ended after three hits, one of which was no new edge and
\* one of which yielded a Span.
C8_Witness ==
    /\ Done
    /\ Cardinality(hits) = 3
    /\ winding_number = 2
    /\ Len(Spans(out)) = 1

\* C9: the shade commands are the regions mapped one to one and in order: a
\* Boundary becomes the Boundary command of the same x and y, a Span the
\* Span command of the range start_x..end_x and the same y.
C9_CommandsMirrorRegions ==
    /\ Len(cmds) = Len(out)
    /\ \A i \in 1..Len(cmds) :
          /\ cmds[i].kind = out[i].kind
          /\ cmds[i].y = out[i].y
          /\ IsBoundary(out[i]) => cmds[i].x = out[i].x
          /\ IsSpan(out[i]) => cmds[i].x = Range(out[i].start_x, out[i].end_x)

\* The mapped stream has ended with a Span command and a Boundary command
\* after it.
C9_Witness ==
    /\ pc = "shade"
    /\ Done
    /\ \E i \in 1..(Len(cmds) - 1) :
          cmds[i].kind = "Span" /\ cmds[i + 1].kind = "Boundary"

C11_DegenerateSegmentHandled ==
    /\ \A k \in 1..Len(segments) :
          IsDegenerate(segments[k]) =>
              LET seg == segments[k] IN
              /\ SegmentRawHits(seg) = <<RawHit(seg.start, 0), RawHit(seg.end, TUnit)>>
              /\ SegmentHits(seg, k - 1) =
                     <<Hit(FloorDiv(seg.start[1], SubPixel),
                           FloorDiv(seg.start[2], SubPixel),
                           Range(seg.start[2], seg.start[2]), k - 1)>>
    /\ pc \in {"built", "regions"} =>
          \A k \in 1..Len(segments) :
              \A i \in 1..Len(SegmentHits(segments[k], k - 1)) :
                  \E h \in hits : HitEq(h, SegmentHits(segments[k], k - 1)[i])
    /\ C1_StrictByRightEnd
    /\ C3_SpansNonEmpty
    /\ C4_BoundaryOutsideSpans

\* The stream has ended with a Span for a segment vector whose degenerate
\* segment's hit is in the hit set, its y_range of zero height.
C11_Witness ==
    /\ pc = "regions"
    /\ Done
    /\ Spans(out) # <<>>
    /\ \E h \in hits :
          /\ h.y_range.start = h.y_range.end
          /\ IsDegenerate(segments[h.segment_id + 1])
          /\ \E i \in 1..Len(out) : out[i] = Boundary(h.x, h.y)


\* Twice the midpoint of the i-th pair of consecutive raw hits of a segment.
MidpointSum(seg, i) ==
    LET raw == SegmentRawHits(seg)
    IN  <<raw[i].position[1] + raw[i + 1].position[1],
          raw[i].position[2] + raw[i + 1].position[2]>>

\* Pixel p is the floor of the fixed-point value m2 / 2: p <= m2 / 2 < p + 1.
IsFloorOfHalf(p, m2) ==
    2 * SubPixel * p <= m2 /\ m2 < 2 * SubPixel * (p + 1)

\* C12: the pixel of every hit is the component-wise floor of the midpoint
\* of its two raw hits, also left of x = 0 where the midpoint is negative;
\* the hit set holds a hit on that pixel, and the Boundary yielded for a hit
\* carries the hit's own x, negative or not.
C12_PixelIsFloorOfMidpoint ==
    /\ \A k \in 1..Len(segments) :
          LET hs == SegmentHits(segments[k], k - 1) IN
          \A i \in 1..Len(hs) :
              /\ IsFloorOfHalf(hs[i].x, MidpointSum(segments[k], i)[1])
              /\ IsFloorOfHalf(hs[i].y, MidpointSum(segments[k], i)[2])
              /\ k <= segment_id => \E h \in hits : HitEq(h, hs[i])
    /\ \A h \in hits :
          \E k \in 1..Len(segments) :
              \E i \in 1..Len(SegmentHits(segments[k], k - 1)) :
                  h = SegmentHits(segments[k], k - 1)[i]
    /\ \A h \in hits \ iter :
          pc = "regions" => \E i \in 1..Len(out) : out[i] = Boundary(h.x, h.y)

\* The stream has ended with a Boundary at x = -1 for a hit whose midpoint
\* lies strictly between x = -1 and x = 0.
C12_Witness ==
    /\ pc = "regions"
    /\ Done
    /\ \E k \in 1..Len(segments) :
          \E i \in 1..Len(SegmentHits(segments[k], k - 1)) :
              /\ MidpointSum(segments[k], i)[1] < 0
              /\ MidpointSum(segments[k], i)[1] > -(2 * SubPixel)
              /\ \E j \in 1..Len(out) :
                    out[j] = Boundary(-1, SegmentHits(segments[k], k - 1)[i].y)


\* The point m2 / 2 (m2 twice a fixed-point position) lies on the line seg:
\* it is collinear with the ends and inside the segment's bounds.
OnSegment(seg, m2) ==
    LET b == SegBounds(seg) IN
    /\ (m2[1] - 2 * seg.start[1]) * (seg.end[2] - seg.start[2]) =
       (m2[2] - 2 * seg.start[2]) * (seg.end[1] - seg.start[1])
    /\ 2 * b.min[1] <= m2[1] /\ m2[1] <= 2 * b.max[1]
    /\ 2 * b.min[2] <= m2[2] /\ m2[2] <= 2 * b.max[2]

PreviousInRow(hit) == IF hit.y # y THEN None ELSE last_hit

\* C14: the step that processes a hit fills the span slot if and only if the
\* hit is a new edge, lies more than one column from last_hit, and the
\* winding number after the hit's update is even; the span is then
\* Span{start_x: last_hit.x + 1, end_x: hit.x, y: hit.y}, and the only
\* Span yielded for the hit is the one of the slot.
C14_SpanIffNewEdgeGapEven ==
    [][
        /\ iter' # iter =>
            LET hit == Unwrap(last_hit')
                prev == PreviousInRow(hit)
                gap == IsSome(prev) /\ Abs(Unwrap(prev).x - hit.x) > 1
            IN  span' = IF IsNewEdge(prev, hit) /\ gap /\ winding_number' % 2 = 0
                        THEN Some(Span(Unwrap(prev).x + 1, hit.x, hit.y))
                        ELSE None
        /\ Len(Spans(out')) > Len(Spans(out)) =>
            /\ IsSome(span)
            /\ out' = Append(out, Unwrap(span))
            /\ span' = None
    ]_vars

\* A hit has just been processed that was a new edge across a gap and made
\* the winding number even: its Boundary is yielded and its Span is in the
\* slot.
C14_Witness ==
    /\ IsSome(span)
    /\ IsSome(last_hit)
    /\ winding_number % 2 = 0
    /\ Len(out) >= 2
    /\ out[Len(out)] = Boundary(Unwrap(last_hit).x, Unwrap(last_hit).y)
    /\ Unwrap(span) = Span(out[Len(out) - 1].x + 1, Unwrap(last_hit).x,
                           Unwrap(last_hit).y)


\* The hits of the walk's current row that have been processed.
RowProcessed == {h \in hits \ iter : h.y = y}

\* The hit of S just left of h in h's row, if any.
LeftNeighbour(S, h) ==
    LET L == {g \in S : g.y = h.y /\ g.x < h.x}
    IN  IF L = {} THEN None
        ELSE Some(CHOOSE g \in L : \A f \in L : f.x <= g.x)

\* The new-edge test as the claim words it.
NewEdgeAsStated(prev, hit) ==
    \/ prev = None
    \/ /\ Unwrap(prev).segment_id # hit.segment_id
       /\ \/ Abs(Unwrap(prev).x - hit.x) > 1
          \/ Contains(Unwrap(prev).y_range, Exact(hit.y_range.start))
          \/ Contains(Unwrap(prev).y_range, SubEpsilon(hit.y_range.end))
          \/ Contains(hit.y_range, Exact(Unwrap(prev).y_range.start))
          \/ Contains(hit.y_range, SubEpsilon(Unwrap(prev).y_range.end))

\* C15, state part: the winding number equals the number of processed hits
\* of the current row that were new edges against the hit left of them.
C15_WindingCountsNewEdges ==
    winding_number =
        Cardinality({h \in RowProcessed : NewEdgeAsStated(LeftNeighbour(hits, h), h)})

\* C15: only the processing of a hit changes the winding number: by exactly
\* one when the hit is a new edge, not at all otherwise, counted from 0 on
\* the first hit of a row; within a row it never decreases, and it always
\* equals the number of new edges among the row's processed hits.
C15_WindingChangesOnlyOnNewEdge ==
    [][
        /\ iter' = iter => winding_number' = winding_number
        /\ iter' # iter =>
            LET hit == Unwrap(last_hit')
                base == IF hit.y # y THEN 0 ELSE winding_number
            IN  winding_number' =
                    base + (IF NewEdgeAsStated(PreviousInRow(hit), hit) THEN 1 ELSE 0)
        /\ y' = y => winding_number' >= winding_number
        /\ C15_WindingCountsNewEdges'
    ]_vars

\* Three hits of row 2 are processed, one of them no new edge.
C15_Witness ==
    /\ y = 2
    /\ Cardinality(RowProcessed) = 3
    /\ winding_number = 2


\* C16: a hit whose predecessor in its row has the same segment_id is no
\* new edge: processing it leaves the winding number as it was and the span
\* slot empty, whatever the gap between the two and their y_ranges; no Span
\* of the stream ends on such a hit.
C16_SameSegmentNeverNewEdge ==
    [][
        /\ iter' # iter =>
            LET hit == Unwrap(last_hit')
                prev == PreviousInRow(hit)
            IN  (IsSome(prev) /\ Unwrap(prev).segment_id = hit.segment_id) =>
                    /\ winding_number' = winding_number
                    /\ span' = None
        /\ \A i \in 1..Len(out') :
              IsSpan(out'[i]) =>
                  \A h, g \in hits :
                      (h.y = out'[i].y /\ h.x = out'[i].end_x /\
                       g.y = h.y /\ g.x = out'[i].start_x - 1) =>
                          g.segment_id # h.segment_id
    ]_vars

\* A hit has just been processed whose predecessor in the row has the same
\* segment_id, lies more than one column to the left and has the same
\* y_range: the winding number is still 1 and the span slot is empty.
C16_Witness ==
    /\ IsSome(last_hit)
    /\ span = None
    /\ winding_number = 1
    /\ LET lh == Unwrap(last_hit)
           p == LeftNeighbour(hits, lh)
       IN  /\ IsSome(p)
           /\ Unwrap(p).segment_id = lh.segment_id
           /\ lh.x - Unwrap(p).x > 1
           /\ Unwrap(p).y_range = lh.y_range


\* The y_ranges a and b do not overlap and touch at an endpoint value.
TouchOnly(a, b) == a.end = b.start \/ b.end = a.start

\* C17 as stated: a hit that follows, without a gap, a hit of another
\* segment in its row whose y_range only touches its own at an endpoint
\* value is no new edge: processing it does not increment the winding
\* number.
C17_TouchingRangesNoNewEdge ==
    [][
        iter' # iter =>
            LET hit == Unwrap(last_hit')
                prev == PreviousInRow(hit)
            IN  (/\ IsSome(prev)
                 /\ Unwrap(prev).segment_id # hit.segment_id
                 /\ Abs(Unwrap(prev).x - hit.x) <= 1
                 /\ TouchOnly(Unwrap(prev).y_range, hit.y_range)) =>
                    winding_number' = winding_number
    ]_vars


\* The regions of stream s that lie in row r, in order.
RowOf(s, r) ==
    LET InRow(reg) == reg.y = r IN SelectSeq(s, InRow)

\* C18: the first hit of a row is processed with last_hit cleared and the
\* winding number reset: once it is processed the walk's y is its row, the
\* winding number is 1 and the span slot is empty; every Span yielded lies
\* between two hits of its own row; and once the stream has ended the
\* regions of each row are the regions the walk yields for that row's hits
\* alone.
C18_RowStartResetsWalk ==
    /\ IsSome(last_hit) =>
          /\ y = Unwrap(last_hit).y
          /\ LeftNeighbour(hits, Unwrap(last_hit)) = None =>
                /\ winding_number = 1
                /\ span = None
    /\ \A i \in 1..Len(out) :
          IsSpan(out[i]) =>
              \E g, h \in hits :
                  /\ g.y = out[i].y /\ h.y = out[i].y
                  /\ g.x = out[i].start_x - 1 /\ h.x = out[i].end_x
    /\ Done =>
          \A r \in {h.y : h \in hits} :
              RowOf(out, r) = RegionsOf({h \in hits : h.y = r})

\* The stream has ended over two rows: the only hit of row 0 lies right of
\* the hits of row 2, another segment's, and row 2 has yielded a Span.
C18_Witness ==
    /\ Done
    /\ \E g, h \in hits :
          /\ g.y = 0 /\ h.y = 2
          /\ g.x > h.x + 1
          /\ g.segment_id # h.segment_id
          /\ LeftNeighbour(hits, h) = None
    /\ \E i \in 1..Len(out) : IsSpan(out[i]) /\ out[i].y = 2


\* C19, state part: the stream holds one Boundary per processed hit, every
\* Span directly follows the Boundary of the hit it ends on, and a Span
\* still in the slot belongs to the hit whose Boundary was yielded last.
C19_SpanDirectlyAfterItsBoundary ==
    /\ Len(Boundaries(out)) = Cardinality(hits \ iter)
    /\ Len(out) <= 2 * Cardinality(hits \ iter)
    /\ \A i \in 1..Len(out) :
          IsSpan(out[i]) =>
              /\ i > 1
              /\ out[i - 1] = Boundary(out[i].end_x, out[i].y)
    /\ IsSome(span) =>
          /\ out # <<>>
          /\ out[Len(out)] = Boundary(Unwrap(span).end_x, Unwrap(span).y)
          /\ Unwrap(last_hit).x = Unwrap(span).end_x

\* C19: a hit yields its Boundary, then its Span if it has one, and the walk
\* takes the next hit only when both are yielded: a hit is pulled with the
\* span slot empty and appends its own Boundary, a Span is yielded from the
\* slot without the walk state moving.
C19_BoundaryThenSpanBeforeNextHit ==
    [][
        /\ iter' # iter =>
            /\ span = None
            /\ out' = Append(out, Boundary(Unwrap(last_hit').x, Unwrap(last_hit').y))
        /\ (iter' = iter /\ out' # out) =>
            /\ IsSome(span)
            /\ out' = Append(out, Unwrap(span))
            /\ span' = None
            /\ <<y, last_hit, winding_number>>' = <<y, last_hit, winding_number>>
        /\ C19_SpanDirectlyAfterItsBoundary'
    ]_vars

\* The stream of three hits of a row has ended: Boundary, Boundary, the
\* Span of the second hit, then the Boundary of the third.
C19_Witness ==
    /\ Done
    /\ Len(out) = 4
    /\ IsBoundary(out[1])
    /\ IsBoundary(out[2])
    /\ IsSpan(out[3])
    /\ IsBoundary(out[4])
    /\ out[4].y = out[3].y


\* C20: every Span yielded lies exactly between two Boundary pixels of its
\* row that were yielded before it: (start_x - 1, y) and (end_x, y) are
\* Boundaries earlier in the stream, in that order, their hits are
\* consecutive in the row, and no Boundary of the row has its x in
\* [start_x, end_x).
C20_SpanBetweenEarlierBoundaries ==
    \A i \in 1..Len(out) :
        IsSpan(out[i]) =>
            /\ \E j, k \in 1..(i - 1) :
                  /\ j < k
                  /\ out[j] = Boundary(out[i].start_x - 1, out[i].y)
                  /\ out[k] = Boundary(out[i].end_x, out[i].y)
            /\ \E h \in hits :
                  /\ h.y = out[i].y
                  /\ h.x = out[i].end_x
                  /\ IsSome(LeftNeighbour(hits, h))
                  /\ Unwrap(LeftNeighbour(hits, h)).x = out[i].start_x - 1
            /\ \A j \in 1..Len(out) :
                  (IsBoundary(out[j]) /\ out[j].y = out[i].y) =>
                      (out[j].x < out[i].start_x \/ out[j].x >= out[i].end_x)

\* The stream has ended with a Span of two pixels between the Boundaries of
\* two hits three columns apart, and a later row's Boundary after it.
C20_Witness ==
    /\ Done
    /\ \E i \in 1..(Len(out) - 1) :
          /\ IsSpan(out[i])
          /\ out[i].end_x - out[i].start_x = 2
          /\ out[i + 1].y > out[i].y


\* The 1-based place of hit h among the hits of its row, by x.
Rank(h) == Cardinality({g \in hits : g.y = h.y /\ g.x <= h.x})

\* The Spans yielded so far or waiting in the slot.
EmittedSpans == RegionSet(Spans(out)) \cup RegionSet(span)

\* Consecutive hits of every row come from different segments and lie more
\* than one column apart.
AllGapsAllNewSegments ==
    \A h \in hits :
        LET p == LeftNeighbour(hits, h) IN
        IsSome(p) =>
            /\ Unwrap(p).segment_id # h.segment_id
            /\ h.x - Unwrap(p).x > 1

\* C21: in a row whose consecutive hits all come from different segments
\* and are all separated by gaps, a Span ends on a processed hit exactly
\* when the hit is the 2k-th of its row, and it then runs from the column
\* after the (2k-1)-th hit; no Span lies between the 2k-th and the
\* (2k+1)-th hit, and an odd last hit has none.
C21_EvenOddFilling ==
    AllGapsAllNewSegments =>
        /\ \A h \in hits \ iter :
              /\ Rank(h) % 2 = 0 =>
                    Span(Unwrap(LeftNeighbour(hits, h)).x + 1, h.x, h.y) \in EmittedSpans
              /\ Rank(h) % 2 = 1 =>
                    \A s \in EmittedSpans : ~(s.y = h.y /\ s.end_x = h.x)
        /\ Cardinality(EmittedSpans) =
              Cardinality({h \in hits \ iter : Rank(h) % 2 = 0})

\* The stream has ended for a row of four hits, all of different segments
\* from their neighbours and all separated by gaps: two Spans are yielded.
C21_Witness ==
    /\ Done
    /\ AllGapsAllNewSegments
    /\ Cardinality(hits) = 4
    /\ Len(Spans(out)) = 2


\* C22: once the bookends are in, the first element of a segment's RawHit
\* set is {t = 0, position = start} and the last is {t = 1, position = end},
\* whatever crossings are inserted; no element other than the bookends has
\* a t within 10 * EPSILON of 0 or of 1.
C22_BookendsStayFirstAndLast ==
    pc \in {"crossings", "joined"} =>
        LET seg == segments[segment_id + 1]
            n == Len(segment_hits)
        IN  /\ n >= 2
            /\ segment_hits[1] = RawHit(seg.start, 0)
            /\ segment_hits[n] = RawHit(seg.end, TUnit)
            /\ \A i \in 2..(n - 1) :
                 /\ segment_hits[i].t > EpsTolerance
                 /\ segment_hits[i].t < TUnit - EpsTolerance

\* C22 witness: all crossings are inserted, and among them were one within
\* the tolerance of t = 0 and one within the tolerance of t = 1.
C22_Witness ==
    /\ pc = "joined"
    /\ \E i, j \in 1..Len(crossings) :
         /\ crossings[i].t <= EpsTolerance
         /\ crossings[j].t >= TUnit - EpsTolerance
    /\ Len(segment_hits) > 2

NearSome(s, r) == \E i \in 1..Len(s) : Abs(s[i].t - r.t) <= EpsTolerance

\* C23: the elements of a segment's RawHit set are, in iteration order,
\* strictly increasing in t and more than 10 * EPSILON apart, and inserting
\* a raw hit within 10 * EPSILON of an element of the set changes nothing.
C23_RawHitsApartAndIncreasing ==
    /\ [](\A i, j \in 1..Len(segment_hits) :
            i < j => segment_hits[j].t - segment_hits[i].t > EpsTolerance)
    /\ [][
           (/\ pc = "crossings"
            /\ crossing_idx' = crossing_idx + 1
            /\ NearSome(segment_hits, crossings[crossing_idx + 1]))
           => segment_hits' = segment_hits
         ]_vars

\* C23 witness: both loops found the crossing at THalf (a lattice corner),
\* it is in the set once, and a crossing within the tolerance of two
\* elements that are not within the tolerance of each other was dropped.
C23_Witness ==
    /\ pc = "joined"
    /\ Cardinality({i \in 1..Len(crossings) : crossings[i].t = THalf}) = 2
    /\ Cardinality({i \in 1..Len(segment_hits) : segment_hits[i].t = THalf}) = 1
    /\ \E i \in 1..Len(crossings) :
         /\ crossings[i].t = THalf + 6
         /\ \E j, k \in 1..Len(segment_hits) :
              /\ segment_hits[j].t = THalf
              /\ segment_hits[k].t = THalf + 14


\* Every horizontal grid line strictly inside the segment's y-extent has a
\* raw hit in the segment's set.
HorizontalLinesContributed(seg) ==
    \A i \in 1..Len(FineLines) :
        Between(FineLines[i], seg.start[2], seg.end[2]) =>
            \E r \in RegionSet(FineRawHits(seg)) :
                r.position[2] = FineLines[i] * Ulp

\* C24: every hit's y_range is ordered, start <= end, and, when every
\* horizontal grid line strictly inside the segment's y-extent contributed
\* a raw hit, it is at most one pixel high and lies inside the hit's row:
\* hit.y <= y_range.start and y_range.end <= hit.y + 1.
C24_RangeOrderedInsideRow ==
    pc = "built" =>
        \A h \in hits :
            /\ h.y_range.start <= h.y_range.end
            /\ HorizontalLinesContributed(segments[h.segment_id + 1]) =>
                 /\ h.y_range.end - h.y_range.start <= Ulp
                 /\ Ulp * h.y <= h.y_range.start
                 /\ h.y_range.end <= Ulp * (h.y + 1)

\* The hits processed so far that have a hit to their left in their row.
ProcessedWithPredecessor ==
    {h \in hits \ iter : IsSome(LeftNeighbour(hits, h))}

\* C25: the drained stream ends and stays ended; every step consumes at most
\* one hit, never returns one, and yields exactly one region; the regions
\* yielded are one Boundary per processed hit and at most one Span per
\* processed hit that has a predecessor in its row, so that the whole
\* stream has between |hits| and 2 * |hits| regions; an empty hit set
\* yields nothing.
C25_StreamFiniteSinglePass ==
    /\ <>[]Done
    /\ [](/\ iter \subseteq hits
          /\ Len(Boundaries(out)) = Cardinality(hits \ iter)
          /\ Len(Spans(out)) + Len(span) <= Cardinality(ProcessedWithPredecessor)
          /\ Len(out) <= 2 * Cardinality(hits)
          /\ Done => Len(out) >= Cardinality(hits)
          /\ hits = {} => Done /\ out = <<>>)
    /\ [][
           /\ iter' \subseteq iter
           /\ Cardinality(iter \ iter') <= 1
           /\ Len(out') = Len(out) + 1
           /\ SubSeq(out', 1, Len(out)) = out
           /\ hits' = hits
         ]_vars

\* C25 witness: a stream of three hits has ended with four regions.
C25_Witness ==
    /\ Done
    /\ Cardinality(hits) = MaxHits
    /\ Len(out) = MaxHits + 1
    /\ Len(Spans(out)) = 1


\* The candidate hits of the first n segments, in the order of insertion:
\* by segment, and within a segment by raw hit pair in t order.
RECURSIVE CandidatesUpTo(_, _)
CandidatesUpTo(segs, n) ==
    IF n = 0 THEN <<>>
    ELSE CandidatesUpTo(segs, n - 1) \o SegmentHits(segs[n], n - 1)

\* C26, for segments on the pixel lattice: the hit set holds, for every
\* pixel, the first candidate inserted, and no step alters a stored hit.
C26_LowestSegmentSurvives ==
    /\ [](LET c == CandidatesUpTo(segments, segment_id)
          IN  hits = {c[i] : i \in {k \in 1..Len(c) :
                                      \A j \in 1..(k - 1) : ~HitEq(c[j], c[k])}})
    /\ [][hits \subseteq hits']_vars

\* The candidate hits of the first n segments in f32, in the order of
\* insertion.
RECURSIVE FineCandidatesUpTo(_, _)
FineCandidatesUpTo(segs, n) ==
    IF n = 0 THEN <<>>
    ELSE FineCandidatesUpTo(segs, n - 1) \o FineHits(segs[n], n - 1)

\* C26: whenever the loop is between two segments or has returned, the hit
\* set holds, for every pixel with a candidate among the segments processed
\* so far, the first candidate inserted for that pixel (lowest segment_id,
\* then earliest raw hit pair in t order), with its own segment_id and
\* y_range; and no step removes or alters a stored hit.
C26_FirstInsertedSurvives ==
    /\ [](pc \in {"from", "built"} =>
            LET c == FineCandidatesUpTo(segments, segment_id)
            IN  hits = {c[i] : i \in {k \in 1..Len(c) :
                                        \A j \in 1..(k - 1) : ~HitEq(c[j], c[k])}})
    /\ [][hits \subseteq hits']_vars

\* C26 witness: from() has returned; one pixel has three candidates with
\* three different y_ranges, two from consecutive raw hit pairs of the
\* first segment and one from the second segment, and the earliest of the
\* first segment is the one in the set.
C26_Witness ==
    /\ pc = "built"
    /\ Len(segments) = 2
    /\ LET c == FineHits(segments[1], 0)
           d == FineHits(segments[2], 1)
       IN  \E i, j \in 1..Len(c), k \in 1..Len(d) :
             /\ i < j
             /\ HitEq(c[i], c[j])
             /\ HitEq(c[i], d[k])
             /\ c[i].y_range # c[j].y_range
             /\ c[i].y_range # d[k].y_range
             /\ c[i] \in hits
             /\ c[j] \notin hits
             /\ d[k] \notin hits


\* The vectors with the elements of s in every order.
Reorderings(s) ==
    {[i \in 1..Len(s) |-> s[f[i]]] :
        f \in {g \in [1..Len(s) -> 1..Len(s)] :
                 \A i, j \in 1..Len(s) : g[i] = g[j] => i = j}}

PixelsOf(S) == {<<h.x, h.y>> : h \in S}

\* The pixels of the Boundaries of a region stream.
BoundaryPixels(s) == {<<r.x, r.y>> : r \in RegionSet(Boundaries(s))}

\* C27: once the stream has ended, the pixels of the Boundaries yielded are
\* the pixels of all candidate hits of the segment vector, and the stream
\* of every reordering of the vector has Boundaries at the same pixels.
C27_BoundaryPixelsOrderIndependent ==
    (pc = "regions" /\ Done) =>
        /\ BoundaryPixels(out) = PixelsOf(CandidateHits(segments))
        /\ \A p \in Reorderings(segments) :
             BoundaryPixels(RegionsOf(HitsOf(p))) = BoundaryPixels(out)

\* C27 witness: the stream has ended for a vector of four segments one of
\* whose reorderings builds a different hit set (another y_range on one of
\* the pixels) and yields different Spans.
C27_Witness ==
    /\ pc = "regions"
    /\ Done
    /\ Len(segments) = 4
    /\ \E p \in Reorderings(segments) :
         /\ \E g \in HitsOf(p), h \in hits :
              HitEq(g, h) /\ g.y_range # h.y_range
         /\ RegionSet(Spans(RegionsOf(HitsOf(p)))) # RegionSet(Spans(out))


\* C28: of two Spans yielded for one row, the later starts right of the
\* earlier one's end_x, and a Boundary of that row yielded between the two
\* lies at or right of the earlier one's end_x and left of the later one's
\* start_x.
C28_SpansOfRowDisjointIncreasing ==
    \A i, j \in 1..Len(out) :
        (i < j /\ IsSpan(out[i]) /\ IsSpan(out[j]) /\ out[i].y = out[j].y) =>
            /\ out[i].start_x < out[i].end_x
            /\ out[i].end_x < out[j].start_x
            /\ \E k \in (i + 1)..(j - 1) :
                 /\ IsBoundary(out[k])
                 /\ out[k].y = out[i].y
                 /\ out[i].end_x <= out[k].x
                 /\ out[k].x < out[j].start_x

\* C28 witness: the stream has ended with two Spans in one row.
C28_Witness ==
    /\ Done
    /\ \E i, j \in 1..Len(out) :
         i < j /\ IsSpan(out[i]) /\ IsSpan(out[j]) /\ out[i].y = out[j].y


\* The layers pushed so far and, while the loop runs, the one being filled.
GroupsSoFar ==
    [i \in 1..Len(layers) |-> layers[i].meshes]
    \o (IF pc = "batch" /\ meshes_in_layer # <<>> THEN <<meshes_in_layer>> ELSE <<>>)

\* C29: every MeshGroup, pushed or being filled, holds meshes of the
\* blend_mode of its first mesh only and at most MAX_MESHES - 1 of them; a
\* group follows another only where its first mesh has another blend_mode
\* or the earlier group is full; and the step that takes a mesh pushes the
\* group being filled and starts a new one if and only if the mesh has a
\* blend_mode other than that of the group's first mesh or the group holds
\* MAX_MESHES - 1 meshes.
C29_GroupsOfOneBlendModeBelowMax ==
    /\ [](LET g == GroupsSoFar IN
          /\ \A i \in 1..Len(g) :
               /\ \A k \in 1..Len(g[i]) : g[i][k].blend_mode = g[i][1].blend_mode
               /\ Len(g[i]) <= MAX_MESHES - 1
          /\ \A i \in 1..(Len(g) - 1) :
               \/ g[i + 1][1].blend_mode # g[i][1].blend_mode
               \/ Len(g[i]) = MAX_MESHES - 1)
    /\ [][
           (pc = "batch" /\ mesh_idx' = mesh_idx + 1) =>
               LET mesh == meshes[mesh_idx + 1]
                   started == /\ layers' = Append(layers, MeshGroup("Default", meshes_in_layer))
                              /\ meshes_in_layer' = <<mesh>>
                   joined == /\ layers' = layers
                             /\ meshes_in_layer' = Append(meshes_in_layer, mesh)
                   differs == /\ meshes_in_layer # <<>>
                              /\ meshes_in_layer[1].blend_mode # mesh.blend_mode
                   full == Len(meshes_in_layer) = MAX_MESHES - 1
               IN  /\ started <=> (differs \/ full)
                   /\ joined <=> ~(differs \/ full)
         ]_vars

\* C29 witness: from() has returned layers of which one was closed because
\* it was full and the next mesh had its blend_mode, and another, not full,
\* because the next mesh had another blend_mode.
C29_Witness ==
    /\ pc = "batched"
    /\ \E i, j \in 1..(Len(layers) - 1) :
         /\ Len(layers[i].meshes) = MAX_MESHES - 1
         /\ layers[i + 1].meshes[1].blend_mode = layers[i].meshes[1].blend_mode
         /\ Len(layers[j].meshes) < MAX_MESHES - 1
         /\ layers[j + 1].meshes[1].blend_mode # layers[j].meshes[1].blend_mode

RECURSIVE Concat(_)
Concat(ss) == IF ss = <<>> THEN <<>> ELSE Head(ss) \o Concat(Tail(ss))

\* C30: the meshes of the layers pushed so far, followed by those of the
\* layer being filled, are the meshes taken so far, in their order; no
\* layer pushed is empty; and once from() has returned, the layers hold
\* exactly the input, with no layer at all for the empty input.
C30_MeshesKeptInOrderNoEmptyGroup ==
    /\ Concat([i \in 1..Len(layers) |-> layers[i].meshes]) \o meshes_in_layer
         = SubSeq(meshes, 1, mesh_idx)
    /\ \A i \in 1..Len(layers) : layers[i].meshes # <<>>
    /\ pc = "batched" =>
         /\ mesh_idx = Len(meshes)
         /\ meshes_in_layer = <<>>
         /\ meshes = <<>> => layers = <<>>

\* C30 witness: from() has returned three layers for five meshes no two of
\* which that are next to each other are equal.
C30_Witness ==
    /\ pc = "batched"
    /\ Len(meshes) = MaxMeshes
    /\ Len(layers) = 3
    /\ \A i \in 1..(Len(meshes) - 1) : meshes[i] # meshes[i + 1]


\* The layers among the outputs of next(), in the order they were returned.
Yielded(s) == [i \in 1..Len(SelectSeq(s, IsSome)) |-> Unwrap(SelectSeq(s, IsSome)[i])]

\* The layers a LayerInput holds, in the order the claim has them yielded:
\* the one layer of a Single, the vector of a Many from its back.
Pending(li) == IF li.kind = "Single" THEN li.ts ELSE Reversed(li.ts)

\* C31: the layers yielded so far followed by the layers still held, taken
\* from the back of the vector, never change: every layer held is yielded
\* exactly once, last first.  A call returns None only when nothing is
\* held, every call after a None returns None, and after the first call the
\* LayerInput is a Many (the empty one if it was a Single).
C31_YieldsEachLayerOnceBackToFront ==
    /\ [][Yielded(yielded') \o Pending(layer_input')
            = Yielded(yielded) \o Pending(layer_input)]_vars
    /\ [](/\ \A i, j \in 1..Len(yielded) :
               (i < j /\ yielded[i] = None) => yielded[j] = None
          /\ (\E i \in 1..Len(yielded) : yielded[i] = None) =>
               layer_input = Many(<<>>)
          /\ yielded # <<>> => layer_input.kind = "Many")
    /\ [][
           /\ Len(yielded') = Len(yielded) + 1
           /\ SubSeq(yielded', 1, Len(yielded)) = yielded
           /\ (yielded'[Len(yielded')] = None) <=> (Pending(layer_input) = <<>>)
           /\ layer_input.kind = "Single" => layer_input' = Many(<<>>)
         ]_vars

\* C31 witness: a Many of three layers, the first and the last different,
\* has yielded the three, the last one first, and then None twice.
C31_Witness ==
    /\ pc = "iter"
    /\ Len(yielded) = MaxLayers + MaxNoneCalls
    /\ yielded[1] # yielded[MaxLayers]
    /\ yielded[MaxLayers] # None
    /\ yielded[MaxLayers + 1] = None
    /\ yielded[MaxLayers + MaxNoneCalls] = None


\* The last n elements of the sequence s.
LastN(s, n) == SubSeq(s, Len(s) - n + 1, Len(s))

\* C32: no step changes or moves a layer of the composition: the layers of
\* before are a prefix of the layers of after, and they grow by exactly the
\* layers next() yields during the add.  When add has returned, and when
\* layers() hands the vector out, its last layers are the layers the
\* LayerInput yielded, in that order, which for a Vec<Mesh> are the groups
\* of that call from the last constructed to the first.
C32_AddOnlyAppends ==
    /\ [][
           /\ Len(composition') >= Len(composition)
           /\ SubSeq(composition', 1, Len(composition)) = composition
           /\ pc \in {"batched", "extend"} =>
                composition' = composition \o LastN(Yielded(yielded'),
                    Len(Yielded(yielded')) - Len(Yielded(yielded)))
           /\ pc \notin {"batched", "extend"} => composition' = composition
         ]_vars
    /\ [](pc \in {"compose", "layers"} =>
            /\ Len(composition) >= Len(Yielded(yielded))
            /\ LastN(composition, Len(Yielded(yielded))) = Yielded(yielded)
            /\ meshes # <<>> =>
                 /\ Yielded(yielded) = Reversed(layers)
                 /\ Concat([i \in 1..Len(layers) |-> layers[i].meshes]) = meshes)

\* C32 witness: layers() hands out three layers: the Layer::Mesh of a first
\* add, then the two different groups of an add of a Vec<Mesh>, the second
\* group before the first.
C32_Witness ==
    /\ pc = "layers"
    /\ Len(composition) = 3
    /\ Len(layers) = 2
    /\ layers[1] # layers[2]
    /\ composition[1] \in {MeshLayer("Default", Mesh(b, c)) :
                              b \in BlendModes, c \in Contents}
    /\ composition[2] = layers[2]
    /\ composition[3] = layers[1]

=============================================================================
